---- MODULE Spec2Model ----
(***************************************************************************)
(* Model of the routing-cube lattice simulator: Face/Faces, RoutingCube,   *)
(* Robot, NetworkGrid and NetworkDiagnostics, with the routing and robot   *)
(* algorithm hooks as bounded scripts of cube API calls.                   *)
(***************************************************************************)
EXTENDS Integers, Sequences, FiniteSets, TLC

\* ------------------------------------------------------------------ bounds
\* number of RoutingCube objects constructed in one behaviour
MaxCubes == 2
\* number of grid.step() calls in one behaviour
MaxSteps == 1
\* the same two bounds where the cubes exchange packets
MaxTrafficCubes == 2
MaxTrafficSteps == 2
\* RoutingCube.MAX_Q_LEN used by the general specification
QCap == 2
\* largest RoutingCube.MAX_Q_LEN the overflow scenario is run with
MaxCap == 5
\* number of grid.step() calls in the overflow scenario
MaxOverflowSteps == 11
MaxOrderCubes == 3
MaxOrderSteps == 2

\* -------------------------------------------------------------- directions
UP == 0
DOWN == 1
WEST == 2
EAST == 3
NORTH == 4
SOUTH == 5
Dirs == {UP, DOWN, WEST, EAST, NORTH, SOUTH}

\* the face of the neighbouring cube that a face touches
Opposite(d) ==
    CASE d = UP -> DOWN
      [] d = DOWN -> UP
      [] d = WEST -> EAST
      [] d = EAST -> WEST
      [] d = NORTH -> SOUTH
      [] d = SOUTH -> NORTH

\* axis delta of a direction
Delta(d) ==
    CASE d = UP -> <<0, 0, 1>>
      [] d = DOWN -> <<0, 0, -1>>
      [] d = WEST -> <<-1, 0, 0>>
      [] d = EAST -> <<1, 0, 0>>
      [] d = NORTH -> <<0, 1, 0>>
      [] d = SOUTH -> <<0, -1, 0>>

Shift(p, d) == <<p[1] + Delta(d)[1], p[2] + Delta(d)[2], p[3] + Delta(d)[3]>>

\* the lattice positions the drivers use: the origin and one cube on each axis
Positions == {<<0, 0, 0>>, <<1, 0, 0>>, <<0, 1, 0>>, <<0, 0, 1>>}
Layers == {p[3] : p \in Positions}

\* ---------------------------------------------------------------- values
\* Python None for references, ids and get_packet results
None == <<>>
IntId(n) == <<"int", n>>
StrId(n) == <<"str", n>>
\* the ids a driver passes explicitly; None asks for an automatic id
ExplicitIds == {IntId(0)}
IdArgs == ExplicitIds \cup {None}

VARIABLES
    cubes,              \* every RoutingCube object constructed, by object index
    node_map,           \* NetworkGrid.node_map: position -> object index, 0 = absent
    node_list,          \* NetworkGrid.node_list
    robot_list,         \* NetworkGrid.robot_list (each Robot by the index of its cube)
    layer_entry_points, \* NetworkGrid.layer_entry_points: z -> object index, 0 = absent
    layer_bounds,       \* NetworkGrid.layer_bounds: z -> <<min_x,max_x,min_y,max_y>>
    stats,              \* NetworkGrid.stats
    routing_algorithm,  \* NetworkGrid.routing_algorithm: the scripts of its hooks
    robot_algorithm,    \* NetworkGrid.robot_algorithm: the scripts of its hooks
    NEXT_ID,            \* RoutingCube._NEXT_ID
    MAX_Q_LEN,          \* RoutingCube.MAX_Q_LEN
    cycle,              \* number of grid.step() calls made
    got,                \* the get_packet results of the last grid.step()
    recipe,             \* the Recipe object of the presenter
    executed,           \* per recipe command, how often handle_comm completed it
    raised              \* the exception the last execute_next call raised, "" = none

vars == <<cubes, node_map, node_list, robot_list, layer_entry_points,
          layer_bounds, stats, routing_algorithm, robot_algorithm, NEXT_ID,
          MAX_Q_LEN, cycle, got, recipe, executed, raised>>


\* ------------------------------------------------- NodeDiagnostics / Face
NodeDiagnostics ==
    [num_pkts_sent |-> 0, num_pkts_sent_this_cycle |-> 0,
     num_pkts_received |-> 0, num_pkts_received_this_cycle |-> 0,
     num_pkts_dropped |-> 0, num_pkts_dropped_this_cycle |-> 0,
     highest_q_len |-> 0, is_robot |-> FALSE]

reset_cycle_dependent_stats(st) ==
    [st EXCEPT !.num_pkts_sent_this_cycle = 0,
               !.num_pkts_received_this_cycle = 0,
               !.num_pkts_dropped_this_cycle = 0]

\* buffer_pkt putting the packet at the front of the buffer
buffer_pkt_front(face, pkt) == <<pkt>> \o face

\* Face.buffer_pkt: the receive buffer is a list, appended at the end
buffer_pkt(face, pkt) == Append(face, pkt)

\* Faces.get_all_packets: drain the six faces in Direction order, each packet
\* paired with the direction of the face it was buffered on
RECURSIVE get_all_packets(_, _)
get_all_packets(faces, d) ==
    IF d > SOUTH THEN <<>>
    ELSE [i \in 1..Len(faces[d]) |-> <<faces[d][i], d>>]
         \o get_all_packets(faces, d + 1)

\* ------------------------------------------------------------ RoutingCube
\* RoutingCube.__init__: id None takes the class counter _NEXT_ID
RoutingCube(position, id, nid, maxq) ==
    [position |-> position,
     id |-> IF id = None THEN IntId(nid) ELSE id,
     faces |-> [d \in Dirs |-> <<>>],
     ll_references |-> [d \in Dirs |-> None],
     packets |-> <<>>,
     maxsize |-> maxq,
     data |-> None,
     stats |-> NodeDiagnostics]

\* the class counter after RoutingCube.__init__
NextIdAfter(id, nid) == IF id = None THEN nid + 1 ELSE nid

\* the stats property: current_q_len and has_packet are read off the queue
current_q_len(cube) == Len(cube.packets)
has_packet(cube) == Len(cube.packets) > 0

connected_in_direction(cube, d) == cube.ll_references[d] # None

\* Faces.add_packet on ll_references: a reference <<owner, face>> names the
\* inbound face of another cube; the packet is buffered there
add_packet(cs, c, d, pkt) ==
    LET ref == cs[c].ll_references[d] IN
    IF ref # None
    THEN [cubes |-> [cs EXCEPT ![ref[1]].faces[ref[2]] = buffer_pkt(@, pkt)],
          ok |-> TRUE]
    ELSE [cubes |-> cs, ok |-> FALSE]

\* send_packet that does not account a failed transmission
send_packet_uncounted(cs, c, d, pkt) ==
    add_packet([cs EXCEPT ![c].stats.num_pkts_sent = @ + 1,
                          ![c].stats.num_pkts_sent_this_cycle = @ + 1], c, d, pkt)

\* RoutingCube.send_packet
send_packet(cs, c, d, pkt) ==
    LET counted == [cs EXCEPT ![c].stats.num_pkts_sent = @ + 1,
                              ![c].stats.num_pkts_sent_this_cycle = @ + 1]
        r == add_packet(counted, c, d, pkt)
    IN  IF r.ok THEN r
        ELSE [cubes |-> [r.cubes EXCEPT ![c].stats.num_pkts_dropped = @ + 1,
                                        ![c].stats.num_pkts_dropped_this_cycle = @ + 1],
              ok |-> FALSE]

\* RoutingCube.get_packet: ret is <<packet, rx direction>>, or None for (None, None)
get_packet(cs, c) ==
    IF Len(cs[c].packets) > 0
    THEN [cubes |-> [cs EXCEPT ![c].packets = Tail(@)], ret |-> Head(cs[c].packets)]
    ELSE [cubes |-> cs, ret |-> None]

\* QueueFull that lets one packet too many in
QueueFullLate(cube) == cube.maxsize > 0 /\ Len(cube.packets) > cube.maxsize

\* queue.Queue.put_nowait: Full when a bounded queue already holds maxsize items
QueueFull(cube) == cube.maxsize > 0 /\ Len(cube.packets) >= cube.maxsize

\* the loop body that loses a packet on a full queue without counting it
ReceiveOne_uncounted(cube, entry) ==
    LET counted == [cube EXCEPT !.stats.num_pkts_received = @ + 1,
                                !.stats.num_pkts_received_this_cycle = @ + 1]
        put == IF QueueFull(counted) THEN counted
               ELSE [counted EXCEPT !.packets = Append(@, entry)]
    IN  IF Len(put.packets) > put.stats.highest_q_len
        THEN [put EXCEPT !.stats.highest_q_len = Len(put.packets)]
        ELSE put

\* the loop body that leaves highest_q_len as it is
ReceiveOne_untracked(cube, entry) ==
    LET counted == [cube EXCEPT !.stats.num_pkts_received = @ + 1,
                                !.stats.num_pkts_received_this_cycle = @ + 1]
    IN  IF QueueFull(counted)
        THEN [counted EXCEPT !.stats.num_pkts_dropped = @ + 1,
                             !.stats.num_pkts_dropped_this_cycle = @ + 1]
        ELSE [counted EXCEPT !.packets = Append(@, entry)]

\* the body of the loop of RoutingCube.flush_buffers for one received packet
ReceiveOne(cube, entry) ==
    LET counted == [cube EXCEPT !.stats.num_pkts_received = @ + 1,
                                !.stats.num_pkts_received_this_cycle = @ + 1]
        put == IF QueueFull(counted)
               THEN [counted EXCEPT !.stats.num_pkts_dropped = @ + 1,
                                    !.stats.num_pkts_dropped_this_cycle = @ + 1]
               ELSE [counted EXCEPT !.packets = Append(@, entry)]
    IN  IF Len(put.packets) > put.stats.highest_q_len
        THEN [put EXCEPT !.stats.highest_q_len = Len(put.packets)]
        ELSE put

RECURSIVE ReceiveAll(_, _, _)
ReceiveAll(cube, received, i) ==
    IF i > Len(received) THEN cube
    ELSE ReceiveAll(ReceiveOne(cube, received[i]), received, i + 1)

\* RoutingCube.flush_buffers
flush_buffers(cube) ==
    ReceiveAll([cube EXCEPT !.faces = [d \in Dirs |-> <<>>]],
               get_all_packets(cube.faces, UP), 1)

\* ------------------------------------------------------------ NetworkGrid
\* the grid and the class attributes as one value, for the operations below
Grid ==
    [cubes |-> cubes, node_map |-> node_map, node_list |-> node_list,
     robot_list |-> robot_list, layer_entry_points |-> layer_entry_points,
     layer_bounds |-> layer_bounds, stats |-> stats,
     routing_algorithm |-> routing_algorithm, robot_algorithm |-> robot_algorithm,
     NEXT_ID |-> NEXT_ID, MAX_Q_LEN |-> MAX_Q_LEN]

NetworkDiagnostics ==
    [total_pkts_sent |-> 0, total_pkts_sent_this_cycle |-> 0,
     total_pkts_received |-> 0, total_pkts_received_this_cycle |-> 0,
     total_pkts_dropped |-> 0, total_pkts_dropped_this_cycle |-> 0,
     total_pkts_queued |-> 0,
     max_total_pkts_sent |-> 0, max_pkts_sent_this_cycle |-> 0,
     max_total_pkts_received |-> 0, max_pkts_received_this_cycle |-> 0,
     max_total_pkts_dropped |-> 0, max_pkts_dropped_this_cycle |-> 0,
     max_current_q_len |-> 0, max_highest_q_len |-> 0]

\* NetworkGrid.__init__ with the class attributes _NEXT_ID and MAX_Q_LEN
NetworkGrid(routing, robot, maxq) ==
    [cubes |-> <<>>, node_map |-> [p \in Positions |-> 0], node_list |-> <<>>,
     robot_list |-> <<>>, layer_entry_points |-> [z \in Layers |-> 0],
     layer_bounds |-> [z \in Layers |-> <<>>], stats |-> NetworkDiagnostics,
     routing_algorithm |-> routing, robot_algorithm |-> robot,
     NEXT_ID |-> 0, MAX_Q_LEN |-> maxq]

\* NetworkGrid.get_node: dict.get, 0 for None
get_node(nm, p) == IF p \in DOMAIN nm THEN nm[p] ELSE 0

\* NetworkGrid.get_node_by_id: the first cube of node_list with that id
get_node_by_id(g, id) ==
    LET hits == {i \in 1..Len(g.node_list) : g.cubes[g.node_list[i]].id = id}
    IN  IF hits = {} THEN 0
        ELSE g.node_list[CHOOSE i \in hits : \A j \in hits : i <= j]

Max(a, b) == IF a >= b THEN a ELSE b
Min(a, b) == IF a <= b THEN a ELSE b

\* list.remove: drop the first occurrence
ListRemove(l, v) ==
    LET hits == {i \in 1..Len(l) : l[i] = v} IN
    IF hits = {} THEN l
    ELSE LET k == CHOOSE i \in hits : \A j \in hits : i <= j
         IN  SubSeq(l, 1, k - 1) \o SubSeq(l, k + 1, Len(l))

\* Connect with the neighbour's side of the link forgotten
ConnectOneSided(cs, nm, n, pos, d, od) ==
    LET nb == get_node(nm, Shift(pos, d)) IN
    IF nb = 0 THEN cs ELSE [cs EXCEPT ![n].ll_references[d] = <<nb, od>>]

\* add_node, one adjacent position: the neighbour in direction d gets the new
\* cube's face d in its slot od, the new cube the neighbour's face od in slot d
Connect(cs, nm, n, pos, d, od) ==
    LET nb == get_node(nm, Shift(pos, d)) IN
    IF nb = 0 THEN cs
    ELSE [[cs EXCEPT ![nb].ll_references[od] = <<n, d>>]
              EXCEPT ![n].ll_references[d] = <<nb, od>>]

\* add_node, "connect references between adjacent nodes"
ConnectReferences(cs, nm, n, pos) ==
    LET c1 == Connect(cs, nm, n, pos, UP, DOWN)
        c2 == Connect(c1, nm, n, pos, DOWN, UP)
        c3 == Connect(c2, nm, n, pos, NORTH, SOUTH)
        c4 == Connect(c3, nm, n, pos, SOUTH, NORTH)
        c5 == Connect(c4, nm, n, pos, EAST, WEST)
    IN  Connect(c5, nm, n, pos, WEST, EAST)

\* remove_node, one adjacent position: the neighbour in direction d loses slot od
Disconnect(cs, nm, pos, d, od) ==
    LET nb == get_node(nm, Shift(pos, d)) IN
    IF nb = 0 THEN cs ELSE [cs EXCEPT ![nb].ll_references[od] = None]

\* remove_node, "remove linked list references"
RemoveReferences(cs, nm, pos) ==
    LET c1 == Disconnect(cs, nm, pos, UP, DOWN)
        c2 == Disconnect(c1, nm, pos, DOWN, UP)
        c3 == Disconnect(c2, nm, pos, NORTH, SOUTH)
        c4 == Disconnect(c3, nm, pos, SOUTH, NORTH)
        c5 == Disconnect(c4, nm, pos, EAST, WEST)
    IN  Disconnect(c5, nm, pos, WEST, EAST)

\* add_node, layer_entry_points
EntryAfter(g, n, pos) ==
    LET z == pos[3]
        cur == g.layer_entry_points[z]
    IN  IF cur = 0 THEN [g.layer_entry_points EXCEPT ![z] = n]
        ELSE IF pos[1] < g.cubes[cur].position[1] \/ pos[2] > g.cubes[cur].position[2]
             THEN [g.layer_entry_points EXCEPT ![z] = n]
             ELSE g.layer_entry_points

\* add_node, layer_bounds
BoundsAfter(g, pos) ==
    LET z == pos[3]
        b == g.layer_bounds[z]
    IN  IF g.layer_entry_points[z] = 0
        THEN [g.layer_bounds EXCEPT ![z] = <<pos[1], pos[1], pos[2], pos[2]>>]
        ELSE [g.layer_bounds EXCEPT ![z] = <<Min(b[1], pos[1]), Max(b[2], pos[1]),
                                             Min(b[3], pos[2]), Max(b[4], pos[2])>>]

\* ------------------------------------------------------- algorithm hooks
\* A hook of a RoutingAlgorithm or RobotAlgorithm is a script: the sequence of
\* cube API calls it makes, a direction d for send_packet(d, fresh packet),
\* GET for get_packet, and ECHO(d) for get_packet followed, when it returned
\* a packet, by send_packet(d, fresh packet).
GET == 6
ECHO(d) == 7 + d

\* the packet a hook sends: an opaque value that names its sender, the
\* sender's send count, the cycle of the send and the direction sent in
Packet(cs, c, d, cyc) ==
    [src |-> c, seq |-> cs[c].stats.num_pkts_sent + 1, cyc |-> cyc, dir |-> d]

\* run a hook's calls on cube c; log holds what get_packet returned
RECURSIVE RunScript(_, _, _, _, _, _)
RunScript(st, c, script, i, cyc, phase) ==
    IF i > Len(script) THEN st
    ELSE IF script[i] = GET
         THEN LET r == get_packet(st.cubes, c) IN
              RunScript([cubes |-> r.cubes,
                         log |-> IF r.ret = None THEN st.log
                                 ELSE Append(st.log, [by |-> c, pkt |-> r.ret[1],
                                                     rx |-> r.ret[2], phase |-> phase])],
                        c, script, i + 1, cyc, phase)
         ELSE IF script[i] > GET
         THEN LET d == script[i] - 7
                  r == get_packet(st.cubes, c)
                  s == send_packet(r.cubes, c, d, Packet(r.cubes, c, d, cyc))
              IN  IF r.ret = None
                  THEN RunScript(st, c, script, i + 1, cyc, phase)
                  ELSE RunScript([cubes |-> s.cubes,
                                  log |-> Append(st.log, [by |-> c, pkt |-> r.ret[1],
                                                          rx |-> r.ret[2], phase |-> phase])],
                                 c, script, i + 1, cyc, phase)
         ELSE LET r == send_packet(st.cubes, c, script[i],
                                   Packet(st.cubes, c, script[i], cyc)) IN
              RunScript([cubes |-> r.cubes, log |-> st.log],
                        c, script, i + 1, cyc, phase)

\* the registry of algorithm pairs <<RoutingAlgorithm, RobotAlgorithm>> a grid
\* is built with, each hook given by its script
AllDirections == <<UP, DOWN, WEST, EAST, NORTH, SOUTH>>

\* the base classes: every hook is "pass"
BaseAlgo ==
    <<[power_on |-> <<>>, route |-> <<>>], [power_on |-> <<>>, step |-> <<>>]>>

\* the shape of BellmanFordRouting / BellmanFordRobot: power_on announces in
\* all directions, route takes one packet, the robot's step runs route
AnnounceAlgo ==
    <<[power_on |-> AllDirections, route |-> <<GET>>],
      [power_on |-> AllDirections, step |-> <<GET>>]>>

\* the shape of the random-walk pair: route takes one packet and sends, here
\* twice in direction d; the robot's step takes a packet
ForwardAlgo(d) ==
    <<[power_on |-> <<>>, route |-> <<GET, d, d>>], [power_on |-> <<>>, step |-> <<GET>>]>>

\* the shape of the robot template: cubes are passive, the robot's step sends
\* one packet in direction d
BeaconAlgo(d) ==
    <<[power_on |-> <<>>, route |-> <<>>], [power_on |-> <<>>, step |-> <<d>>]>>

\* the shape of Bellman-Ford in use: a robot announces itself at power_on,
\* route and the robot's step answer a received packet with one packet
EchoAlgo(out, back) ==
    <<[power_on |-> <<>>, route |-> <<ECHO(out)>>],
      [power_on |-> <<back>>, step |-> <<ECHO(back)>>]>>

\* the shape of the spanning-tree algorithm: route takes one packet, and the
\* send_packet hook sends the data packet out at once, here EAST and WEST
FloodAlgo ==
    <<[power_on |-> <<>>, route |-> <<GET>>, send_packet |-> <<EAST, WEST>>],
      [power_on |-> <<>>, step |-> <<GET>>]>>

\* the pairs the grids of each specification are built with
Algos == {AnnounceAlgo}
RecipeAlgos == {AnnounceAlgo, FloodAlgo}
TrafficAlgos == {AnnounceAlgo, ForwardAlgo(EAST), BeaconAlgo(WEST)}

\* ------------------------------------------------- NetworkGrid operations
\* NetworkGrid.add_node(x, y, z, id, node); node = 0 is None
add_node(g, pos, id, node, cyc) ==
    LET made == node = 0
        cs0 == IF made
               THEN Append(g.cubes, RoutingCube(pos, id, g.NEXT_ID, g.MAX_Q_LEN))
               ELSE g.cubes
        n == IF made THEN Len(cs0) ELSE node
        nm == [g.node_map EXCEPT ![pos] = n]
        g0 == [g EXCEPT !.cubes = cs0]
        cs1 == ConnectReferences(cs0, nm, n, pos)
        on == RunScript([cubes |-> cs1, log |-> <<>>], n,
                        g.routing_algorithm.power_on, 1, cyc, "power_on")
    IN  [g EXCEPT !.cubes = on.cubes,
                  !.node_map = nm,
                  !.node_list = Append(@, n),
                  !.layer_entry_points = EntryAfter(g0, n, pos),
                  !.layer_bounds = BoundsAfter(g0, pos),
                  !.NEXT_ID = IF made THEN NextIdAfter(id, @) ELSE @]

\* NetworkGrid.add_robot
add_robot(g, pos, id, cyc) ==
    LET cs0 == Append(g.cubes, RoutingCube(pos, id, g.NEXT_ID, g.MAX_Q_LEN))
        n == Len(cs0)
        g0 == [g EXCEPT !.cubes = cs0,
                        !.NEXT_ID = NextIdAfter(id, @),
                        !.robot_list = Append(@, n)]
        g1 == add_node(g0, pos, id, n, cyc)
        on == RunScript([cubes |-> g1.cubes, log |-> <<>>], n,
                        g.robot_algorithm.power_on, 1, cyc, "power_on")
    IN  [g1 EXCEPT !.cubes = on.cubes]

\* NetworkGrid.remove_node
remove_node(g, pos) ==
    LET node == get_node(g.node_map, pos) IN
    IF node = 0 THEN g
    ELSE LET nm == [g.node_map EXCEPT ![pos] = 0] IN
         [g EXCEPT !.node_map = nm,
                   !.node_list = ListRemove(@, node),
                   !.cubes = RemoveReferences(@, nm, pos)]

\* NetworkGrid.remove_node_by_id
remove_node_by_id(g, id) ==
    LET node == get_node_by_id(g, id) IN
    IF node = 0 THEN g ELSE remove_node(g, g.cubes[node].position)

\* reset_cycle_dependent_stats that leaves total_pkts_queued as it was
reset_net_cycle_dependent_stats_queued(ns) ==
    [ns EXCEPT !.total_pkts_sent_this_cycle = 0,
               !.total_pkts_received_this_cycle = 0,
               !.total_pkts_dropped_this_cycle = 0,
               !.max_pkts_sent_this_cycle = 0,
               !.max_pkts_received_this_cycle = 0,
               !.max_pkts_dropped_this_cycle = 0,
               !.max_current_q_len = 0]

\* NetworkDiagnostics.reset_cycle_dependent_stats
reset_net_cycle_dependent_stats(ns) ==
    [ns EXCEPT !.total_pkts_sent_this_cycle = 0,
               !.total_pkts_received_this_cycle = 0,
               !.total_pkts_dropped_this_cycle = 0,
               !.total_pkts_queued = 0,
               !.max_pkts_sent_this_cycle = 0,
               !.max_pkts_received_this_cycle = 0,
               !.max_pkts_dropped_this_cycle = 0,
               !.max_current_q_len = 0]

\* NetworkDiagnostics.integrate_node_stats, for the counters NodeDiagnostics has
integrate_node_stats(ns, cube) ==
    LET nd == cube.stats IN
    [ns EXCEPT !.total_pkts_sent = @ + nd.num_pkts_sent_this_cycle,
               !.total_pkts_sent_this_cycle = @ + nd.num_pkts_sent_this_cycle,
               !.total_pkts_received = @ + nd.num_pkts_sent_this_cycle,
               !.total_pkts_received_this_cycle = @ + nd.num_pkts_received_this_cycle,
               !.total_pkts_dropped = @ + nd.num_pkts_dropped_this_cycle,
               !.total_pkts_dropped_this_cycle = @ + nd.num_pkts_dropped_this_cycle,
               !.total_pkts_queued = @ + current_q_len(cube),
               !.max_total_pkts_sent = Max(@, nd.num_pkts_sent),
               !.max_pkts_sent_this_cycle = Max(@, nd.num_pkts_sent_this_cycle),
               !.max_total_pkts_received = Max(@, nd.num_pkts_received),
               !.max_pkts_received_this_cycle = Max(@, nd.num_pkts_received_this_cycle),
               !.max_total_pkts_dropped = Max(@, nd.num_pkts_dropped),
               !.max_pkts_dropped_this_cycle = Max(@, nd.num_pkts_dropped_this_cycle),
               !.max_current_q_len = Max(@, current_q_len(cube)),
               !.max_highest_q_len = Max(@, nd.highest_q_len)]

RECURSIVE IntegrateAll(_, _, _, _)
IntegrateAll(ns, cs, nl, i) ==
    IF i > Len(nl) THEN ns
    ELSE IntegrateAll(integrate_node_stats(ns, cs[nl[i]]), cs, nl, i + 1)

\* NetworkGrid.update_net_stats
update_net_stats(g) ==
    [g EXCEPT !.stats = IntegrateAll(reset_net_cycle_dependent_stats(@),
                                     g.cubes, g.node_list, 1)]

\* RoutingCube.step: reset the per-cycle counters, then routing_algorithm.route
cube_step(st, c, rscript, cyc) ==
    RunScript([st EXCEPT !.cubes[c].stats = reset_cycle_dependent_stats(@)],
              c, rscript, 1, cyc, "route")

RECURSIVE RoutePhase(_, _, _, _, _)
RoutePhase(st, order, i, rscript, cyc) ==
    IF i > Len(order) THEN st
    ELSE RoutePhase(cube_step(st, order[i], rscript, cyc), order, i + 1, rscript, cyc)

RECURSIVE FlushPhase(_, _, _)
FlushPhase(st, order, i) ==
    IF i > Len(order) THEN st
    ELSE FlushPhase([st EXCEPT !.cubes[order[i]] = flush_buffers(@)], order, i + 1)

\* Robot.step: robot_algorithm.step(robot)
RECURSIVE RobotPhase(_, _, _, _, _)
RobotPhase(st, order, i, bscript, cyc) ==
    IF i > Len(order) THEN st
    ELSE RobotPhase(RunScript(st, order[i], bscript, 1, cyc, "robot"),
                    order, i + 1, bscript, cyc)

\* the three loops of NetworkGrid.step over the given visiting orders
StepPhases(st, route_order, flush_order, robot_order, rscript, bscript, cyc) ==
    RobotPhase(FlushPhase(RoutePhase(st, route_order, 1, rscript, cyc),
                          flush_order, 1),
               robot_order, 1, bscript, cyc)

\* NetworkGrid.step with the cubes and robots visited in the given orders;
\* cyc is the number of this step
StepInOrder(g, route_order, flush_order, robot_order, cyc) ==
    LET st == StepPhases([cubes |-> g.cubes, log |-> <<>>],
                         route_order, flush_order, robot_order,
                         g.routing_algorithm.route, g.robot_algorithm.step, cyc)
    IN  [grid |-> update_net_stats([g EXCEPT !.cubes = st.cubes]), log |-> st.log]

\* NetworkGrid.step: node_list order, node_list order, robot_list order
step(g, cyc) ==
    StepInOrder(g, g.node_list, g.node_list, g.robot_list, cyc)

\* send_packet that ignores a source id no cube has
grid_send_packet_silent(g, src_id) ==
    LET src_node == get_node_by_id(g, src_id) IN
    IF src_node = 0
    THEN [raised |-> "", hook |-> "", on |-> 0]
    ELSE [raised |-> "", hook |-> "routing_algorithm.send_packet", on |-> src_node]

\* NetworkGrid.send_packet(data, src_id, dest_id): which algorithm hook
\* it invokes and on which cube object; "ValueError" when no cube of
\* node_list has the id, no hook when is_robot is set and no robot of
\* robot_list has the id
grid_send_packet(g, src_id) ==
    LET src_node == get_node_by_id(g, src_id) IN
    IF src_node = 0
    THEN [raised |-> "ValueError", hook |-> "", on |-> 0]
    ELSE IF g.cubes[src_node].stats.is_robot
         THEN LET hits == {i \in 1..Len(g.robot_list) :
                              g.cubes[g.robot_list[i]].id = g.cubes[src_node].id}
              IN  IF hits = {}
                  THEN [raised |-> "", hook |-> "", on |-> 0]
                  ELSE [raised |-> "", hook |-> "robot_algorithm.send_packet",
                        on |-> g.robot_list[CHOOSE i \in hits : \A j \in hits : i <= j]]
         ELSE [raised |-> "", hook |-> "routing_algorithm.send_packet", on |-> src_node]

\* ----------------------------------------------------------------- Recipe
\* a command of a recipe with its argument list
Comm(comm, args) == [comm |-> comm, args |-> args]

\* RecipeComm.expected_arg_counts
expected_arg_counts ==
    [ADDN |-> {3, 4}, ADDR |-> {3, 4}, RMVN |-> {3, 1}, SEND |-> {7, 3},
     WAIT |-> {1}, LOOP |-> {1}, ENDL |-> {0}, PAUSE |-> {0}]

\* Recipe.__init__
Recipe(commands) ==
    [commands |-> commands, idx |-> 0, length |-> Len(commands),
     wait_cycles_remaining |-> 0, loop_iters_remaining |-> 0, loop_idx |-> 0,
     in_loop |-> FALSE, paused |-> FALSE]

\* the result of a handler: the recipe, the grid, and the exception raised
Done(r, g) == [recipe |-> r, grid |-> g, raised |-> ""]
Raise(r, g, exc) == [recipe |-> r, grid |-> g, raised |-> exc]

\* the send_packet hook of an algorithm: the base class's "pass" unless the
\* algorithm defines one
SendHook(algo) ==
    IF "send_packet" \in DOMAIN algo THEN algo.send_packet ELSE <<>>

\* an id argument of a recipe command: Recipe.from_file made it an integer
IdArg(a) == IntId(a)

\* Recipe.handle_ADDN
handle_ADDN(r, g, args, cyc) ==
    Done(r, add_node(g, <<args[1], args[2], args[3]>>,
                     IF Len(args) = 3 THEN None ELSE IdArg(args[4]), 0, cyc))

\* Recipe.handle_ADDR
handle_ADDR(r, g, args, cyc) ==
    Done(r, add_robot(g, <<args[1], args[2], args[3]>>,
                      IF Len(args) = 3 THEN None ELSE IdArg(args[4]), cyc))

\* Recipe.handle_RMVN
handle_RMVN(r, g, args) ==
    IF Len(args) = 3
    THEN Done(r, remove_node(g, <<args[1], args[2], args[3]>>))
    ELSE Done(r, remove_node_by_id(g, IdArg(args[1])))

\* the algorithm hook NetworkGrid.send_packet invokes, run on the grid
InvokeSend(r, g, call, cyc) ==
    IF call.raised # "" THEN Raise(r, g, call.raised)
    ELSE IF call.hook = "" THEN Done(r, g)
    ELSE IF call.hook = "robot_algorithm.send_packet"
              /\ "send_packet" \notin DOMAIN g.robot_algorithm
         THEN Raise(r, g, "AttributeError")
    ELSE LET algo == IF call.hook = "robot_algorithm.send_packet"
                     THEN g.robot_algorithm ELSE g.routing_algorithm
             on == RunScript([cubes |-> g.cubes, log |-> <<>>], call.on,
                             SendHook(algo), 1, cyc, "send_packet")
         IN  Done(r, [g EXCEPT !.cubes = on.cubes])

\* NetworkGrid.send_packet_by_coords: always the routing algorithm's hook
send_packet_by_coords(g, src_coords) ==
    LET src_node == get_node(g.node_map, src_coords) IN
    IF src_node = 0
    THEN [raised |-> "ValueError", hook |-> "", on |-> 0]
    ELSE [raised |-> "", hook |-> "routing_algorithm.send_packet", on |-> src_node]

\* Recipe.handle_SEND
handle_SEND(r, g, args, cyc) ==
    IF Len(args) = 7
    THEN InvokeSend(r, g, send_packet_by_coords(g, <<args[2], args[3], args[4]>>), cyc)
    ELSE InvokeSend(r, g, grid_send_packet(g, IdArg(args[2])), cyc)

\* handle_WAIT that waits one call more
handle_WAIT_long(r, g, args) ==
    Done([r EXCEPT !.wait_cycles_remaining = args[1] + 1], g)

\* Recipe.handle_WAIT
handle_WAIT(r, g, args) ==
    Done([r EXCEPT !.wait_cycles_remaining = args[1]], g)

\* handle_LOOP that accepts a LOOP inside a loop
handle_LOOP_nested(r, g, args) ==
    Done([r EXCEPT !.loop_idx = r.idx,
                   !.loop_iters_remaining = args[1],
                   !.in_loop = TRUE], g)

\* Recipe.handle_LOOP
handle_LOOP(r, g, args) ==
    IF r.in_loop THEN Raise(r, g, "RuntimeError")
    ELSE Done([r EXCEPT !.loop_idx = r.idx,
                        !.loop_iters_remaining = args[1],
                        !.in_loop = TRUE], g)

\* handle_ENDL that runs the body once less
handle_ENDL_short(r, g) ==
    IF ~r.in_loop THEN Raise(r, g, "RuntimeError")
    ELSE IF r.loop_iters_remaining <= 1
         THEN Done([r EXCEPT !.in_loop = FALSE], g)
         ELSE Done([r EXCEPT !.loop_iters_remaining = @ - 1,
                             !.idx = r.loop_idx], g)

\* handle_ENDL that leaves the loop as soon as the count is not positive
handle_ENDL_countdown(r, g) ==
    IF ~r.in_loop THEN Raise(r, g, "RuntimeError")
    ELSE IF r.loop_iters_remaining <= 0
         THEN Done([r EXCEPT !.in_loop = FALSE], g)
         ELSE Done([r EXCEPT !.loop_iters_remaining = @ - 1,
                             !.idx = r.loop_idx], g)

\* handle_ENDL that goes back to before the LOOP command
handle_ENDL_rewind(r, g) ==
    IF ~r.in_loop THEN Raise(r, g, "RuntimeError")
    ELSE IF r.loop_iters_remaining = 0
         THEN Done([r EXCEPT !.in_loop = FALSE], g)
         ELSE Done([r EXCEPT !.loop_iters_remaining = @ - 1,
                             !.idx = r.loop_idx - 1], g)

\* Recipe.handle_ENDL
handle_ENDL(r, g) ==
    IF ~r.in_loop THEN Raise(r, g, "RuntimeError")
    ELSE IF r.loop_iters_remaining = 0
         THEN Done([r EXCEPT !.in_loop = FALSE], g)
         ELSE Done([r EXCEPT !.loop_iters_remaining = @ - 1,
                             !.idx = r.loop_idx], g)

\* Recipe.handle_PAUSE
handle_PAUSE(r, g) == Done([r EXCEPT !.paused = TRUE], g)

\* Recipe.handle_comm
handle_comm(r, g, comm, args, cyc) ==
    IF comm \in DOMAIN expected_arg_counts
          /\ Len(args) \notin expected_arg_counts[comm]
    THEN Raise(r, g, "ValueError")
    ELSE CASE comm = "ADDN" -> handle_ADDN(r, g, args, cyc)
           [] comm = "ADDR" -> handle_ADDR(r, g, args, cyc)
           [] comm = "RMVN" -> handle_RMVN(r, g, args)
           [] comm = "SEND" -> handle_SEND(r, g, args, cyc)
           [] comm = "WAIT" -> handle_WAIT(r, g, args)
           [] comm = "LOOP" -> handle_LOOP(r, g, args)
           [] comm = "ENDL" -> handle_ENDL(r, g)
           [] comm = "PAUSE" -> handle_PAUSE(r, g)
           [] OTHER -> Raise(r, g, "ValueError")

\* is_running that does not look at paused
is_running_paused(r) == r.length > r.idx

\* Recipe.is_running
is_running(r) == r.length > r.idx /\ ~r.paused

\* the end of execute_next after handle_comm returned h for the k-th command:
\* idx += 1, which an exception skips
Handled(h, k) ==
    IF h.raised # ""
    THEN [recipe |-> h.recipe, grid |-> h.grid, raised |-> h.raised, handled |-> 0]
    ELSE [recipe |-> [h.recipe EXCEPT !.idx = @ + 1], grid |-> h.grid,
          raised |-> "", handled |-> k]

\* Recipe.execute_next; handled is the index (from 1) of the command whose
\* handling completed, 0 when none did
execute_next(r, g, cyc) ==
    IF ~is_running(r)
    THEN [recipe |-> r, grid |-> g, raised |-> "", handled |-> 0]
    ELSE IF r.wait_cycles_remaining > 0
    THEN [recipe |-> [r EXCEPT !.wait_cycles_remaining = @ - 1], grid |-> g,
          raised |-> "", handled |-> 0]
    ELSE Handled(handle_comm(r, g, r.commands[r.idx + 1].comm,
                             r.commands[r.idx + 1].args, cyc), r.idx + 1)

\* resume that releases every PAUSE that follows
resume_skipping(r) ==
    LET runs == {m \in 0..(r.length - r.idx) :
                    \A b \in (r.idx + 1)..(r.idx + m) : r.commands[b].comm = "PAUSE"}
    IN  [r EXCEPT !.paused = FALSE,
                  !.idx = @ + (CHOOSE m \in runs : \A k \in runs : k <= m)]

\* Recipe.resume
resume(r) == [r EXCEPT !.paused = FALSE]

\* ---------------------------------------------------------------- actions
\* the ids remove_node_by_id is called with
RemoveIds == ExplicitIds \cup {IntId(n) : n \in 0..1}

Install(g) ==
    /\ cubes' = g.cubes
    /\ node_map' = g.node_map
    /\ node_list' = g.node_list
    /\ robot_list' = g.robot_list
    /\ layer_entry_points' = g.layer_entry_points
    /\ layer_bounds' = g.layer_bounds
    /\ stats' = g.stats
    /\ routing_algorithm' = g.routing_algorithm
    /\ robot_algorithm' = g.robot_algorithm
    /\ NEXT_ID' = g.NEXT_ID
    /\ MAX_Q_LEN' = g.MAX_Q_LEN

InitGrid(g) ==
    /\ cubes = g.cubes
    /\ node_map = g.node_map
    /\ node_list = g.node_list
    /\ robot_list = g.robot_list
    /\ layer_entry_points = g.layer_entry_points
    /\ layer_bounds = g.layer_bounds
    /\ stats = g.stats
    /\ routing_algorithm = g.routing_algorithm
    /\ robot_algorithm = g.robot_algorithm
    /\ NEXT_ID = g.NEXT_ID
    /\ MAX_Q_LEN = g.MAX_Q_LEN

\* a presenter without a recipe
NoRecipe ==
    /\ recipe = Recipe(<<>>)
    /\ executed = <<>>
    /\ raised = ""

\* a new process: an empty grid built with one of the given algorithm pairs
InitWith(algos, maxq) ==
    /\ \E algo \in algos : InitGrid(NetworkGrid(algo[1], algo[2], maxq))
    /\ cycle = 0
    /\ got = <<>>
    /\ NoRecipe

\* a driver calls grid.add_node(x, y, z, id)
AddNodeIn(positions, ids, bound) ==
    /\ Len(cubes) < bound
    /\ \E pos \in positions, id \in ids :
           Install(add_node(Grid, pos, id, 0, cycle))
    /\ UNCHANGED <<cycle, got, recipe, executed, raised>>

\* a driver calls grid.add_robot(x, y, z, id)
AddRobotIn(positions, ids, bound) ==
    /\ Len(cubes) < bound
    /\ \E pos \in positions, id \in ids :
           Install(add_robot(Grid, pos, id, cycle))
    /\ UNCHANGED <<cycle, got, recipe, executed, raised>>

\* a driver calls grid.remove_node(x, y, z)
RemoveNodeIn(positions) ==
    /\ \E pos \in positions : Install(remove_node(Grid, pos))
    /\ UNCHANGED <<cycle, got, recipe, executed, raised>>

\* a driver calls grid.step()
StepUpTo(bound) ==
    /\ cycle < bound
    /\ LET r == step(Grid, cycle + 1) IN
       /\ Install(r.grid)
       /\ got' = r.log
    /\ cycle' = cycle + 1
    /\ UNCHANGED <<recipe, executed, raised>>

\* ------------------------------------------------- the lattice under edits
\* every grid operation, explicit and automatic ids, the announcing algorithm
Init == InitWith(Algos, QCap)

AddNode == AddNodeIn(Positions, IdArgs, MaxCubes)

AddRobot == AddRobotIn(Positions, IdArgs, MaxCubes)

RemoveNode == RemoveNodeIn(Positions)

RemoveNodeById ==
    /\ \E id \in RemoveIds : Install(remove_node_by_id(Grid, id))
    /\ UNCHANGED <<cycle, got, recipe, executed, raised>>

Step == StepUpTo(MaxSteps)

Next == AddNode \/ AddRobot \/ RemoveNode \/ RemoveNodeById \/ Step

Spec == Init /\ [][Next]_vars

\* ------------------------------------------------------ the lattice in use
\* automatic ids only, the sending algorithms, more cycles
TrafficPositions == {<<0, 0, 0>>, <<1, 0, 0>>, <<0, 0, 1>>}

TrafficInit == InitWith(TrafficAlgos, QCap)

TrafficAddNode == AddNodeIn(TrafficPositions, {None}, MaxTrafficCubes)

TrafficAddRobot == AddRobotIn(TrafficPositions, {None}, MaxTrafficCubes)

TrafficRemoveNode == RemoveNodeIn(TrafficPositions)

TrafficStep == StepUpTo(MaxTrafficSteps)

TrafficNext ==
    TrafficAddNode \/ TrafficAddRobot \/ TrafficRemoveNode \/ TrafficStep

SpecTraffic == TrafficInit /\ [][TrafficNext]_vars

\* ================================================================ claims
\* the cube present at a position, 0 when none
At(p) == get_node(node_map, p)

\* C1: for every two cubes present in the position map at adjacent positions
\* p and p+delta(d), the cube at p holds in slot d the inbound face
\* opposite(d) of the cube at p+delta(d) and that cube holds in slot
\* opposite(d) the face d of the cube at p; where no cube is present at
\* p+delta(d), slot d of the cube at p is None.
C1_ReciprocalWiring ==
    \A p \in Positions, d \in Dirs :
        At(p) # 0 =>
            LET c == At(p)
                nb == At(Shift(p, d))
            IN  IF nb # 0
                THEN /\ cubes[c].ll_references[d] = <<nb, Opposite(d)>>
                     /\ cubes[nb].ll_references[Opposite(d)] = <<c, d>>
                ELSE cubes[c].ll_references[d] = None

\* two adjacent cubes are present and linked to each other, and a step has run
C1_Witness ==
    /\ cycle >= 1
    /\ \E p \in Positions, d \in Dirs :
           /\ At(p) # 0 /\ At(Shift(p, d)) # 0
           /\ cubes[At(p)].ll_references[d] = <<At(Shift(p, d)), Opposite(d)>>

\* C7: no two cubes present in the grid have the same id.
C7_UniqueIds ==
    \A p, q \in Positions :
        (p # q /\ At(p) # 0 /\ At(q) # 0) => cubes[At(p)].id # cubes[At(q)].id

\* C8: every robot of the robot list owns a cube that is present in the
\* position map at that cube's position.
C8_RobotsPresent ==
    \A i \in 1..Len(robot_list) :
        At(cubes[robot_list[i]].position) = robot_list[i]

\* C9: add_node(p) immediately followed by remove_node(p) leaves every cube
\* adjacent to p with the neighbor reference toward p it had before, whether
\* p was empty or held a cube.
C9_AddRemoveRestores ==
    \A p \in Positions, id \in IdArgs :
        LET after == remove_node(add_node(Grid, p, id, 0, cycle), p) IN
        \A d \in Dirs :
            LET nb == At(Shift(p, d)) IN
            nb # 0 => after.cubes[nb].ll_references[Opposite(d)]
                          = cubes[nb].ll_references[Opposite(d)]

\* the cubes as they stand inside the next grid.step(), between its route
\* loop and its flush loop
MidStep ==
    RoutePhase([cubes |-> cubes, log |-> <<>>], node_list, 1,
               routing_algorithm.route, cycle + 1).cubes

\* C2: a packet sent during grid.step() number C is returned by no get_packet
\* call made during step C, in the route phase or in the robot phase.
C2_DeliveryDelay ==
    \A i \in 1..Len(got) : got[i].pkt.cyc < cycle

\* what flush_buffers must do to a cube: take the buffered packets in order
\* while there is room, discard and count the rest, leave the faces empty
FlushAccounts(before) ==
    LET after == flush_buffers(before)
        received == get_all_packets(before.faces, UP)
        n == Len(received)
        room == Max(0, MAX_Q_LEN - Len(before.packets))
        fit == Min(n, room)
    IN  /\ Len(after.packets) <= MAX_Q_LEN
        /\ after.packets = before.packets \o SubSeq(received, 1, fit)
        /\ after.stats.num_pkts_received = before.stats.num_pkts_received + n
        /\ after.stats.num_pkts_dropped = before.stats.num_pkts_dropped + (n - fit)
        /\ after.stats.num_pkts_dropped_this_cycle
               = before.stats.num_pkts_dropped_this_cycle + (n - fit)
        /\ \A d \in Dirs : after.faces[d] = <<>>

\* C3: in every reachable state of every cube 0 <= current_q_len <= MAX_Q_LEN,
\* and flush_buffers, whatever the six inbound faces hold, never makes the
\* queue longer than MAX_Q_LEN and discards and counts every packet that does
\* not fit.
C3_QueueBounded ==
    /\ \A c \in 1..Len(cubes) :
           /\ 0 <= current_q_len(cubes[c])
           /\ current_q_len(cubes[c]) <= MAX_Q_LEN
           /\ FlushAccounts(cubes[c])
    /\ LET mid == MidStep IN
       \A c \in 1..Len(cubes) : FlushAccounts(mid[c])

\* a cube with a full queue lost a packet to overflow in the last flush: it
\* counted more drops this cycle than it made sends
C3_Witness ==
    \E c \in 1..Len(cubes) :
        /\ current_q_len(cubes[c]) = MAX_Q_LEN
        /\ cubes[c].stats.num_pkts_received_this_cycle > 0
        /\ cubes[c].stats.num_pkts_dropped_this_cycle
               > cubes[c].stats.num_pkts_sent_this_cycle

\* two packets of one sender sent in one direction are in sending order
InOrder(line) ==
    \A i, j \in 1..Len(line) :
        (i < j /\ line[i].src = line[j].src /\ line[i].dir = line[j].dir)
            => line[i].seq < line[j].seq

\* the packets of a queue, without their arrival directions
Pkts(q) == [i \in 1..Len(q) |-> q[i][1]]

\* C5: two packets a cube sends in the same direction reach the neighbor's
\* get_packet in sending order, each with the direction opposite to the one
\* sent in; get_packet removes at most one packet, the head of the queue, and
\* on an empty queue returns (None, None) and changes nothing.
C5_FifoPerFace ==
    /\ \A c \in 1..Len(cubes) :
           LET cube == cubes[c] IN
           /\ \A f \in Dirs :
                  /\ InOrder(Pkts(cube.packets) \o cube.faces[f])
                  /\ \A i \in 1..Len(cube.faces[f]) :
                         cube.faces[f][i].dir = Opposite(f)
           /\ \A i \in 1..Len(cube.packets) :
                  cube.packets[i][2] = Opposite(cube.packets[i][1].dir)
           /\ LET r == get_packet(cubes, c) IN
              IF Len(cube.packets) = 0
              THEN r.ret = None /\ r.cubes = cubes
              ELSE /\ r.ret = cube.packets[1]
                   /\ Len(r.cubes[c].packets) = Len(cube.packets) - 1
                   /\ \A i \in 1..Len(r.cubes[c].packets) :
                          r.cubes[c].packets[i] = cube.packets[i + 1]
    /\ \A i, j \in 1..Len(got) :
           (i < j /\ got[i].by = got[j].by /\ got[i].pkt.src = got[j].pkt.src
                  /\ got[i].pkt.dir = got[j].pkt.dir)
               => got[i].pkt.seq < got[j].pkt.seq
    /\ \A i \in 1..Len(got) : got[i].rx = Opposite(got[i].pkt.dir)

\* a queue holds two packets one sender sent in one direction, and get_packet
\* has returned an earlier packet of that sender to the same cube
C5_Witness ==
    \E c \in 1..Len(cubes) :
        /\ Len(cubes[c].packets) >= 2
        /\ cubes[c].packets[1][1].src = cubes[c].packets[2][1].src
        /\ cubes[c].packets[1][1].dir = cubes[c].packets[2][1].dir
        /\ \E i \in 1..Len(got) :
               /\ got[i].by = c
               /\ got[i].pkt.src = cubes[c].packets[1][1].src

\* the counters of a cube that send_packet may touch
SentBy(cs, c) ==
    <<cs[c].stats.num_pkts_sent, cs[c].stats.num_pkts_sent_this_cycle>>
DroppedBy(cs, c) ==
    <<cs[c].stats.num_pkts_dropped, cs[c].stats.num_pkts_dropped_this_cycle>>

\* C6: every cube.send_packet(d, p) adds exactly 1 to num_pkts_sent and
\* num_pkts_sent_this_cycle; with a neighbor wired in direction d, p is
\* appended to that neighbor's inbound face opposite(d), the result is true
\* and no drop counter changes; with none wired the result is false, both
\* drop counters grow by exactly 1 and no face and no queue changes.
C6_SendPacket ==
    \A c \in 1..Len(cubes), d \in Dirs :
        LET pkt == Packet(cubes, c, d, cycle)
            r == send_packet(cubes, c, d, pkt)
            ref == cubes[c].ll_references[d]
        IN  /\ SentBy(r.cubes, c) = <<SentBy(cubes, c)[1] + 1, SentBy(cubes, c)[2] + 1>>
            /\ \A o \in 1..Len(cubes) :
                   /\ r.cubes[o].packets = cubes[o].packets
                   /\ o # c => r.cubes[o].stats = cubes[o].stats
            /\ IF ref # None
               THEN /\ r.ok
                    /\ ref[2] = Opposite(d)
                    /\ cubes[ref[1]].position = Shift(cubes[c].position, d)
                    /\ DroppedBy(r.cubes, c) = DroppedBy(cubes, c)
                    /\ \A o \in 1..Len(cubes), f \in Dirs :
                           r.cubes[o].faces[f] =
                               IF <<o, f>> = ref THEN Append(cubes[o].faces[f], pkt)
                               ELSE cubes[o].faces[f]
               ELSE /\ ~r.ok
                    /\ DroppedBy(r.cubes, c)
                           = <<DroppedBy(cubes, c)[1] + 1, DroppedBy(cubes, c)[2] + 1>>
                    /\ \A o \in 1..Len(cubes) : r.cubes[o].faces = cubes[o].faces

\* a cube has sent toward a wired neighbor, whose face holds the packet, and
\* has counted drops only for its sends toward absent neighbors
C6_Witness ==
    \E c \in 1..Len(cubes), d \in Dirs :
        /\ cubes[c].ll_references[d] # None
        /\ \E i \in 1..Len(cubes[cubes[c].ll_references[d][1]].faces[Opposite(d)]) :
               cubes[cubes[c].ll_references[d][1]].faces[Opposite(d)][i].src = c
        /\ cubes[c].stats.num_pkts_received = 0
        /\ cubes[c].stats.num_pkts_dropped > 0
        /\ cubes[c].stats.num_pkts_dropped < cubes[c].stats.num_pkts_sent

\* ---- the overflow scenario: a robot beside a plain cube, the robot's step
\* sending one packet toward the cube in every cycle, the cube never reading

\* the two add calls of the scenario, on a fresh grid with MAX_Q_LEN = maxq
OverflowGrid(p, d, maxq) ==
    add_node(add_robot(NetworkGrid(BeaconAlgo(d)[1], BeaconAlgo(d)[2], maxq),
                       p, None, 0),
             Shift(p, d), None, 0, 0)

OverflowInit ==
    \E p \in Positions, d \in Dirs, maxq \in 1..MaxCap :
        /\ Shift(p, d) \in Positions
        /\ InitGrid(OverflowGrid(p, d, maxq))
    /\ cycle = 0
    /\ got = <<>>
    /\ NoRecipe

OverflowStep == StepUpTo(MaxOverflowSteps)

SpecOverflow == OverflowInit /\ [][OverflowStep]_vars

\* C4: with a robot that sends one packet per cycle toward a neighboring
\* plain cube that never calls get_packet, after k grid.step() calls the cube
\* has num_pkts_received = k, current_q_len = min(k, MAX_Q_LEN) and
\* num_pkts_dropped = max(0, k - MAX_Q_LEN).
C4_OverflowCounts ==
    /\ cubes[2].stats.num_pkts_received = cycle
    /\ current_q_len(cubes[2]) = Min(cycle, MAX_Q_LEN)
    /\ cubes[2].stats.num_pkts_dropped = Max(0, cycle - MAX_Q_LEN)

\* ---- visiting order: three cube objects on a line of two positions

LinePositions == {<<0, 0, 0>>, <<1, 0, 0>>}
OrderAlgos == {ForwardAlgo(EAST), BeaconAlgo(EAST), BeaconAlgo(WEST)}

OrderInit == InitWith(OrderAlgos, QCap)
OrderAddNode == AddNodeIn(LinePositions, {None}, MaxOrderCubes)
OrderAddRobot == AddRobotIn(LinePositions, {None}, MaxOrderCubes)
OrderRemoveNode == RemoveNodeIn(LinePositions)
OrderStep == StepUpTo(MaxOrderSteps)
OrderNext == OrderAddNode \/ OrderAddRobot \/ OrderRemoveNode \/ OrderStep

SpecOrder == OrderInit /\ [][OrderNext]_vars

\* the orders a list can be visited in
Orders(list) ==
    {[i \in 1..Len(list) |-> list[f[i]]] : f \in Permutations(1..Len(list))}

\* C10: the state grid.step() leaves does not depend on the order in which
\* the route loop, the flush loop and the robot loop visit the cubes.
C10_OrderIndependent ==
    \A route_order \in Orders(node_list), flush_order \in Orders(node_list),
       robot_order \in Orders(robot_list) :
        LET some == StepInOrder(Grid, route_order, flush_order, robot_order, cycle + 1).grid
            code == step(Grid, cycle + 1).grid
        IN  some.cubes = code.cubes /\ some.stats = code.stats

\* the cubes that add_robot made
IsRobotCube(c) == \E i \in 1..Len(robot_list) : robot_list[i] = c

\* C12: a cube added with add_robot has stats.is_robot = true and
\* grid.send_packet with its id as src_id invokes robot_algorithm.send_packet
\* on its robot and not routing_algorithm.send_packet; for a source cube added
\* with add_node it invokes routing_algorithm.send_packet on that cube.
C12_RobotDispatch ==
    \A i \in 1..Len(node_list) :
        LET c == node_list[i]
            call == grid_send_packet(Grid, cubes[c].id)
        IN  /\ IsRobotCube(c) => cubes[c].stats.is_robot
            /\ get_node_by_id(Grid, cubes[c].id) = c =>
                   call = [raised |-> "",
                           hook |-> IF IsRobotCube(c)
                                    THEN "robot_algorithm.send_packet"
                                    ELSE "routing_algorithm.send_packet",
                           on |-> c]

\* ---- the answering algorithms: cycles with traffic and cycles without
MaxQuietCubes == 2
MaxQuietSteps == 3
QuietAlgos == {EchoAlgo(EAST, WEST), EchoAlgo(UP, DOWN)}

QuietInit == InitWith(QuietAlgos, QCap)
QuietAddNode == AddNodeIn(Positions, {None}, MaxQuietCubes)
QuietAddRobot == AddRobotIn(Positions, {None}, MaxQuietCubes)
QuietRemoveNode == RemoveNodeIn(Positions)
QuietStep == StepUpTo(MaxQuietSteps)
QuietNext == QuietAddNode \/ QuietAddRobot \/ QuietRemoveNode \/ QuietStep

SpecQuiet == QuietInit /\ [][QuietNext]_vars

\* the sum of a NodeDiagnostics counter over the cubes of node_list
RECURSIVE SumStat(_, _, _)
SumStat(g, field, i) ==
    IF i > Len(g.node_list) THEN 0
    ELSE g.cubes[g.node_list[i]].stats[field] + SumStat(g, field, i + 1)

\* the number of send_packet calls made by all cube objects so far
RECURSIVE SendsOf(_, _)
SendsOf(cs, c) ==
    IF c > Len(cs) THEN 0 ELSE cs[c].stats.num_pkts_sent + SendsOf(cs, c + 1)

\* C13: after a grid.step() during which nothing called send_packet and
\* before which no node was added since the previous step, every present cube
\* has num_pkts_sent_this_cycle, num_pkts_received_this_cycle and
\* num_pkts_dropped_this_cycle at 0, also when a robot sent in the robot phase
\* of the previous cycle.
C13_QuietCycleZero ==
    LET previous == step(Grid, cycle + 1).grid
        quiet == step(previous, cycle + 2).grid
    IN  SendsOf(quiet.cubes, 1) = SendsOf(previous.cubes, 1) =>
            \A p \in Positions :
                get_node(quiet.node_map, p) # 0 =>
                    LET st == quiet.cubes[get_node(quiet.node_map, p)].stats IN
                    /\ st.num_pkts_sent_this_cycle = 0
                    /\ st.num_pkts_received_this_cycle = 0
                    /\ st.num_pkts_dropped_this_cycle = 0

\* C14: after every grid.step() the aggregate total_pkts_dropped equals the
\* sum of num_pkts_dropped over the cubes of the grid, drops counted outside a
\* cycle (power_on sends toward absent neighbors) included.
C14_DroppedAggregate ==
    LET after == step(Grid, cycle + 1).grid IN
    after.stats.total_pkts_dropped = SumStat(after, "num_pkts_dropped", 1)

\* C15: after every grid.step() the aggregate total_pkts_received is at most
\* the sum of num_pkts_sent over the cubes of the grid and counts the packets
\* received: each step adds that step's total_pkts_received_this_cycle to it.
C15_ReceivedAggregate ==
    LET after == step(Grid, cycle + 1).grid IN
    /\ after.stats.total_pkts_received <= SumStat(after, "num_pkts_sent", 1)
    /\ after.stats.total_pkts_received
           = stats.total_pkts_received + after.stats.total_pkts_received_this_cycle

\* ---- a presenter's recipe on the grid: execute_next, resume and grid.step
MaxRecipeLen == 3
MaxRecipeSteps == 1
WaitArgs == {0, 2}
LoopArgs == {0, 2}

\* the commands recipes are drawn from: arguments as Recipe.from_file leaves
\* them, integers
RecipeAlphabet ==
    {Comm("ADDN", <<1, 0, 0>>), Comm("ADDN", <<0, 0, 0, 0>>),
     Comm("RMVN", <<1, 0, 0>>), Comm("RMVN", <<0>>),
     Comm("ENDL", <<>>), Comm("PAUSE", <<>>)}
        \cup {Comm("WAIT", <<n>>) : n \in WaitArgs}
        \cup {Comm("LOOP", <<n>>) : n \in LoopArgs}

\* ADDN 0 0 0, LOOP 2, ADDN 1 0 0, RMVN 1 0 0, ENDL
LoopRecipe ==
    <<Comm("ADDN", <<0, 0, 0>>), Comm("LOOP", <<2>>), Comm("ADDN", <<1, 0, 0>>),
      Comm("RMVN", <<1, 0, 0>>), Comm("ENDL", <<>>)>>

\* longer recipes: a loop with a wait and a pause inside and a command after
\* it, a robot and both forms of SEND, three pauses in a row, SENDs to a
\* destination that does not exist and from a source id that does not exist
NamedRecipes ==
    {LoopRecipe,
     <<Comm("LOOP", <<1>>), Comm("WAIT", <<1>>), Comm("PAUSE", <<>>),
       Comm("ENDL", <<>>), Comm("ADDN", <<0, 0, 1>>)>>,
     <<Comm("ADDR", <<0, 0, 0>>), Comm("ADDN", <<1, 0, 0, 0>>),
       Comm("SEND", <<9, 0, 1>>), Comm("SEND", <<9, 1, 0, 0, 0, 0, 0>>),
       Comm("SEND", <<9, 0, 1, 0, 1, 0, 0>>)>>,
     <<Comm("PAUSE", <<>>), Comm("PAUSE", <<>>), Comm("PAUSE", <<>>),
       Comm("ADDN", <<0, 0, 0>>)>>,
     <<Comm("ADDN", <<0, 0, 0, 0>>), Comm("SEND", <<9, 0, 7>>),
       Comm("SEND", <<9, 0, 0, 0, 1, 0, 0>>), Comm("SEND", <<9, 5, 0>>)>>}

Recipes ==
    NamedRecipes \cup UNION {[1..n -> RecipeAlphabet] : n \in 0..MaxRecipeLen}

RecipeInit ==
    /\ \E algo \in RecipeAlgos : InitGrid(NetworkGrid(algo[1], algo[2], QCap))
    /\ cycle = 0
    /\ got = <<>>
    /\ \E commands \in Recipes :
           /\ recipe = Recipe(commands)
           /\ executed = [i \in 1..Len(commands) |-> 0]
    /\ raised = ""

\* the presenter calls recipe.execute_next(netgrid)
InstallCall(e) ==
    /\ Install(e.grid)
    /\ recipe' = e.recipe
    /\ raised' = e.raised
    /\ executed' = IF e.handled = 0 THEN executed
                   ELSE [executed EXCEPT ![e.handled] = @ + 1]

ExecuteNext ==
    /\ InstallCall(execute_next(recipe, Grid, cycle))
    /\ UNCHANGED <<cycle, got>>

\* the presenter calls recipe.resume()
Resume ==
    /\ recipe' = resume(recipe)
    /\ UNCHANGED <<cubes, node_map, node_list, robot_list, layer_entry_points,
                   layer_bounds, stats, routing_algorithm, robot_algorithm,
                   NEXT_ID, MAX_Q_LEN, cycle, got, executed, raised>>

RecipeStep == StepUpTo(MaxRecipeSteps)

RecipeNext == ExecuteNext \/ Resume \/ RecipeStep

SpecRecipe == RecipeInit /\ [][RecipeNext]_vars

\* the name of the i-th command of the recipe, counting from 1
Cmd(i) == recipe.commands[i].comm

\* the ENDL that closes the LOOP at l: the next ENDL, with no LOOP before it
LoopEnds(l) ==
    {e \in (l + 1)..recipe.length :
        /\ Cmd(e) = "ENDL"
        /\ \A b \in (l + 1)..(e - 1) : Cmd(b) \notin {"LOOP", "ENDL"}}

\* C16: for LOOP n (n >= 0), a body without LOOP and a closing ENDL, the
\* execute_next calls execute every command of the body exactly n+1 times and
\* the LOOP once, then go on with the command after ENDL with in_loop false;
\* ADDN 0 0 0, LOOP 2, ADDN 1 0 0, RMVN 1 0 0, ENDL run to its end executes
\* the add/remove pair 3 times and leaves exactly one node, at (0,0,0).
C16_LoopCounts ==
    /\ \A l \in 1..recipe.length :
           Cmd(l) = "LOOP" =>
               \A e \in LoopEnds(l) :
                   /\ recipe.idx >= e =>
                          /\ executed[l] = 1
                          /\ \A b \in (l + 1)..(e - 1) :
                                 executed[b] = recipe.commands[l].args[1] + 1
                   /\ recipe.idx = e =>
                          /\ ~recipe.in_loop
                          /\ e < recipe.length => executed[e + 1] = 0
    /\ (recipe.commands = LoopRecipe /\ recipe.idx = recipe.length) =>
           /\ executed = <<1, 1, 3, 3, 3>>
           /\ {p \in Positions : At(p) # 0} = {<<0, 0, 0>>}
           /\ Len(node_list) = 1

\* the literal recipe has run to its end
C16_Witness ==
    /\ recipe.commands = LoopRecipe
    /\ recipe.idx = recipe.length
    /\ executed[3] = 3

\* k execute_next calls in a row; the result of the last one
RECURSIVE ExecuteTimes(_, _, _, _)
ExecuteTimes(r, g, cyc, k) ==
    IF k = 0 THEN [recipe |-> r, grid |-> g, raised |-> "", handled |-> 0]
    ELSE IF k = 1 THEN execute_next(r, g, cyc)
    ELSE LET e == execute_next(r, g, cyc) IN
         ExecuteTimes(e.recipe, e.grid, cyc, k - 1)

\* the next execute_next call will handle a command named c
NextIs(c) ==
    /\ is_running(recipe)
    /\ recipe.wait_cycles_remaining = 0
    /\ Cmd(recipe.idx + 1) = c

\* a call handled command K (the k-th) as handle_comm does from state <<r, g>>
Handles(e, r, g, k) ==
    LET h == handle_comm(r, g, r.commands[k].comm, r.commands[k].args, cycle) IN
    /\ e.raised = h.raised
    /\ e.grid = h.grid
    /\ h.raised = "" => e.handled = k

\* C17: when execute_next handles WAIT n (n >= 0) and a command K follows,
\* that call and the next n calls execute no grid-affecting command and leave
\* idx pointing at K, and the call after those executes K.
C17_WaitCalls ==
    (NextIs("WAIT") /\ recipe.idx + 2 <= recipe.length) =>
        LET n == recipe.commands[recipe.idx + 1].args[1]
            waited == ExecuteTimes(recipe, Grid, cycle, n + 1)
        IN  /\ \A j \in 1..(n + 1) :
                   LET e == ExecuteTimes(recipe, Grid, cycle, j) IN
                   /\ e.grid = Grid
                   /\ e.recipe.idx = recipe.idx + 1
                   /\ e.raised = ""
                   /\ e.handled = IF j = 1 THEN recipe.idx + 1 ELSE 0
            /\ Handles(ExecuteTimes(recipe, Grid, cycle, n + 2),
                       waited.recipe, Grid, recipe.idx + 2)

\* a WAIT 2 was handled, the wait is over and the command after it executed
C17_Witness ==
    \E w \in 1..(recipe.length - 1) :
        /\ Cmd(w) = "WAIT"
        /\ recipe.commands[w].args[1] = 2
        /\ executed[w] >= 1
        /\ executed[w + 1] >= 1
        /\ recipe.wait_cycles_remaining = 0

\* C18: execute_next on a recipe that is paused or has idx = length changes
\* nothing, neither idx, wait_cycles_remaining, loop_iters_remaining,
\* loop_idx, in_loop, paused nor the grid; a recipe paused by PAUSE stays
\* paused over any number of execute_next calls until resume() is called.
C18_StoppedRecipe ==
    (recipe.paused \/ recipe.idx = recipe.length) =>
        /\ \A k \in 1..3 :
               LET e == ExecuteTimes(recipe, Grid, cycle, k) IN
               /\ e.recipe = recipe
               /\ e.grid = Grid
               /\ e.raised = ""
               /\ e.handled = 0
        /\ recipe.paused => (recipe.idx >= 1 /\ Cmd(recipe.idx) = "PAUSE")

\* a recipe paused by a PAUSE with commands left, and a grid that has cubes
C18_Witness ==
    /\ recipe.paused
    /\ recipe.idx < recipe.length
    /\ executed[recipe.idx] >= 1
    /\ Len(node_list) >= 1

\* k times resume() and execute_next; the result of the last execute_next
RECURSIVE ResumeTimes(_, _, _, _)
ResumeTimes(r, g, cyc, k) ==
    IF k = 0 THEN [recipe |-> r, grid |-> g, raised |-> "", handled |-> 0]
    ELSE IF k = 1 THEN execute_next(resume(r), g, cyc)
    ELSE LET e == execute_next(resume(r), g, cyc) IN
         ResumeTimes(e.recipe, e.grid, cyc, k - 1)

\* how many PAUSE commands follow the command at idx in a row
PausesAhead ==
    LET runs == {m \in 0..(recipe.length - recipe.idx) :
                    \A b \in (recipe.idx + 1)..(recipe.idx + m) : Cmd(b) = "PAUSE"}
    IN  CHOOSE m \in runs : \A k \in runs : k <= m

\* C19: with consecutive PAUSE commands one resume() releases exactly one
\* pause: after the recipe pauses at a PAUSE, resume() and execute_next pause
\* it again at the next PAUSE without executing any command after it, so the
\* command following the last PAUSE is executed only after one resume() per
\* PAUSE.
C19_OneResumePerPause ==
    recipe.paused =>
        LET m == PausesAhead
            last == ResumeTimes(recipe, Grid, cycle, m)
        IN  /\ recipe.wait_cycles_remaining = 0
            /\ \A j \in 1..m :
                   LET e == ResumeTimes(recipe, Grid, cycle, j) IN
                   /\ e.recipe.paused
                   /\ e.recipe.idx = recipe.idx + j
                   /\ e.grid = Grid
                   /\ e.raised = ""
                   /\ e.handled = recipe.idx + j
            /\ recipe.idx + m < recipe.length =>
                   Handles(ResumeTimes(recipe, Grid, cycle, m + 1),
                           resume(last.recipe), Grid, recipe.idx + m + 1)

\* the recipe paused at a PAUSE, was resumed, and paused again at the PAUSE
\* right after it
C19_Witness ==
    /\ recipe.paused
    /\ recipe.idx >= 2
    /\ Cmd(recipe.idx) = "PAUSE"
    /\ Cmd(recipe.idx - 1) = "PAUSE"
    /\ executed[recipe.idx] >= 1
    /\ executed[recipe.idx - 1] >= 1

\* C20: execute_next on a LOOP while in_loop is true, and on an ENDL while
\* in_loop is false, raises a runtime error and leaves idx, loop_idx,
\* loop_iters_remaining, in_loop, wait_cycles_remaining, paused and the grid
\* unchanged; a LOOP after a completed LOOP ... ENDL block is accepted.
C20_LoopErrors ==
    LET e == execute_next(recipe, Grid, cycle) IN
    /\ ((NextIs("LOOP") /\ recipe.in_loop) \/ (NextIs("ENDL") /\ ~recipe.in_loop)) =>
           /\ e.raised = "RuntimeError"
           /\ e.recipe = recipe
           /\ e.grid = Grid
           /\ e.handled = 0
    /\ (NextIs("LOOP") /\ ~recipe.in_loop) =>
           /\ e.raised = ""
           /\ e.handled = recipe.idx + 1
           /\ e.grid = Grid
           /\ e.recipe = [recipe EXCEPT
                              !.in_loop = TRUE,
                              !.loop_idx = recipe.idx,
                              !.loop_iters_remaining = recipe.commands[recipe.idx + 1].args[1],
                              !.idx = @ + 1]

\* a LOOP inside a running loop was refused with the recipe left in place
C20_Witness ==
    /\ raised = "RuntimeError"
    /\ NextIs("LOOP")
    /\ recipe.in_loop
    /\ executed[recipe.loop_idx + 1] = 1

\* ---- runs of a recipe by the presenter
MaxRunCycles == 4

\* NetGridPresenter.next_state: resume the recipe, execute its next command,
\* step the grid; an exception of execute_next ends the call before the step
next_state(r, g, cyc) ==
    LET e == execute_next(resume(r), g, cyc) IN
    IF e.raised # ""
    THEN [recipe |-> e.recipe, grid |-> e.grid, raised |-> e.raised]
    ELSE [recipe |-> e.recipe, grid |-> step(e.grid, cyc + 1).grid, raised |-> ""]

\* the stats a presenter shows after a cycle: the NodeDiagnostics of every
\* cube of node_list as the stats property returns it, and the grid's
\* NetworkDiagnostics
Snapshot(g) ==
    [nodes |-> [i \in 1..Len(g.node_list) |->
                   [stats |-> g.cubes[g.node_list[i]].stats,
                    current_q_len |-> current_q_len(g.cubes[g.node_list[i]]),
                    has_packet |-> has_packet(g.cubes[g.node_list[i]])]],
     net |-> g.stats]

\* a run of k cycles: the snapshots after every cycle and the grid it leaves
RECURSIVE RunCycles(_, _, _, _, _)
RunCycles(r, g, cyc, k, snaps) ==
    IF k = 0 THEN [snapshots |-> snaps, grid |-> g]
    ELSE LET n == next_state(r, g, cyc) IN
         IF n.raised # "" THEN [snapshots |-> snaps, grid |-> n.grid]
         ELSE RunCycles(n.recipe, n.grid, cyc + 1, k - 1,
                        Append(snaps, Snapshot(n.grid)))

\* a run of the recipe on a new grid in a process whose _NEXT_ID is next_id
Run(commands, next_id) ==
    RunCycles(Recipe(commands),
              [NetworkGrid(routing_algorithm, robot_algorithm, MAX_Q_LEN)
                   EXCEPT !.NEXT_ID = next_id],
              0, MaxRunCycles, <<>>)

\* C11: two runs from the same initial network with the same recipe and the
\* same deterministic routing algorithm give the same per-cube and network
\* stats snapshots after every cycle, also when the second run starts after
\* the first in the same process and the recipe mixes explicit integer ids
\* with automatic ids.
C11_RunsAgree ==
    LET first == Run(recipe.commands, 0)
        second == Run(recipe.commands, first.grid.NEXT_ID)
    IN  first.snapshots = second.snapshots

\* a SEND with these arguments names a cube the grid has: by coordinates a
\* cube of the position map, by id a cube of the grid's list of nodes
HasCube(coords, id) ==
    IF Len(coords) = 3
    THEN coords \in DOMAIN node_map /\ node_map[coords] # 0
    ELSE \E i \in 1..Len(node_list) : cubes[node_list[i]].id = IntId(id)

SendSource(args) ==
    IF Len(args) = 7 THEN HasCube(<<args[2], args[3], args[4]>>, 0)
    ELSE HasCube(<<>>, args[2])

SendDest(args) ==
    IF Len(args) = 7 THEN HasCube(<<args[5], args[6], args[7]>>, 0)
    ELSE HasCube(<<>>, args[3])

\* C21: a SEND whose source cube does not exist (by id or by coordinates)
\* raises an error out of execute_next without calling an algorithm hook and
\* without changing the position map, wiring, faces, queues, stats or the
\* recipe's idx; a SEND whose source exists raises no error in the grid, also
\* when its destination does not exist.
C21_SendErrors ==
    NextIs("SEND") =>
        LET args == recipe.commands[recipe.idx + 1].args
            e == execute_next(recipe, Grid, cycle)
        IN  /\ ~SendSource(args) =>
                   /\ e.raised = "ValueError"
                   /\ e.recipe = recipe
                   /\ e.grid = Grid
                   /\ e.handled = 0
            /\ SendSource(args) =>
                   /\ e.raised = ""
                   /\ e.handled = recipe.idx + 1
                   /\ e.recipe.idx = recipe.idx + 1

\* a SEND by id from a source no cube has was refused on a grid that has a
\* cube and a send_packet hook that sends; before it, a SEND to a destination
\* that does not exist was executed
C21_Witness ==
    /\ raised = "ValueError"
    /\ NextIs("SEND")
    /\ Len(recipe.commands[recipe.idx + 1].args) = 3
    /\ ~SendSource(recipe.commands[recipe.idx + 1].args)
    /\ Len(node_list) >= 1
    /\ SendHook(routing_algorithm) # <<>>
    /\ recipe.idx >= 1
    /\ Cmd(recipe.idx) = "SEND"
    /\ ~SendDest(recipe.commands[recipe.idx].args)
    /\ executed[recipe.idx] = 1

\* ---- NetGridPresenter.run on a recipe and a grid
MaxRunSteps == 6
MaxRunRecipeLen == 2
RunArgs == {1, 2, 100}

\* the entry of a run's trace that stands for a call of netgrid.step()
STEP == -1

RECURSIVE run_loop(_, _, _, _)

\* the end of a cycle of run after grid.step() returned st: resume the recipe
\* if pauses are ignored, decrement num_cycles, and go round the loop
RunStepped(st, e, s, cyc, n, ignore) ==
    run_loop([recipe |-> IF ignore THEN resume(e.recipe) ELSE e.recipe,
              grid |-> st.grid, raised |-> "", steps |-> s.steps + 1,
              trace |-> s.trace \o <<e.handled, STEP>>, log |-> st.log],
             cyc, n - 1, ignore)

\* a cycle of run after execute_next returned e: an exception leaves run,
\* otherwise the grid steps
RunCycle(e, s, cyc, n, ignore) ==
    IF e.raised # ""
    THEN [s EXCEPT !.recipe = e.recipe, !.grid = e.grid, !.raised = e.raised]
    ELSE RunStepped(step(e.grid, cyc + s.steps + 1), e, s, cyc, n, ignore)

\* the loop of run that goes on over a pause
run_loop_over_pauses(s, cyc, n, ignore) ==
    IF ~(s.recipe.length > s.recipe.idx /\ n # 0) THEN s
    ELSE RunCycle(execute_next(resume(s.recipe), s.grid, cyc + s.steps),
                  s, cyc, n, ignore)

\* the loop of run that makes one cycle more than num_cycles
run_loop_one_more(s, cyc, n, ignore) ==
    IF ~(is_running(s.recipe) /\ n # -1) THEN s
    ELSE RunCycle(execute_next(s.recipe, s.grid, cyc + s.steps), s, cyc, n, ignore)

\* the loop of NetGridPresenter.run: while recipe.is_running() and
\* num_cycles != 0. s holds the recipe and the grid, the number of grid steps
\* made, the trace of the calls made (for execute_next the command it handled,
\* 0 = none, and STEP for netgrid.step) and the get_packet results of the last
\* step
run_loop(s, cyc, n, ignore) ==
    IF ~(is_running(s.recipe) /\ n # 0) THEN s
    ELSE RunCycle(execute_next(s.recipe, s.grid, cyc + s.steps), s, cyc, n, ignore)

\* NetGridPresenter.run(num_cycles, ignore_pauses): resume, then the loop
run(r, g, cyc, n, ignore) ==
    run_loop([recipe |-> resume(r), grid |-> g, raised |-> "", steps |-> 0,
              trace |-> <<>>, log |-> got], cyc, n, ignore)

\* ADDN 0 0 0, PAUSE, ADDN 1 0 0
PauseRecipe ==
    <<Comm("ADDN", <<0, 0, 0>>), Comm("PAUSE", <<>>), Comm("ADDN", <<1, 0, 0>>)>>

\* the recipes a presenter runs: the short ones over the alphabet, and the
\* named ones
RunRecipes ==
    NamedRecipes \cup {PauseRecipe}
        \cup UNION {[1..n -> RecipeAlphabet] : n \in 0..MaxRunRecipeLen}

RunInit ==
    /\ \E algo \in RecipeAlgos : InitGrid(NetworkGrid(algo[1], algo[2], QCap))
    /\ cycle = 0
    /\ got = <<>>
    /\ \E commands \in RunRecipes :
           /\ recipe = Recipe(commands)
           /\ executed = [i \in 1..Len(commands) |-> 0]
    /\ raised = ""

\* the state a call of run leaves
InstallRun(out) ==
    /\ cycle + out.steps <= MaxRunSteps
    /\ Install(out.grid)
    /\ recipe' = out.recipe
    /\ raised' = out.raised
    /\ cycle' = cycle + out.steps
    /\ got' = out.log
    /\ executed' = [i \in DOMAIN executed |->
                       executed[i] + Cardinality({j \in 1..Len(out.trace) :
                                                     out.trace[j] = i})]

\* a driver calls presenter.run(n, ignore)
RunCall ==
    \E n \in RunArgs, ignore \in BOOLEAN :
        InstallRun(run(recipe, Grid, cycle, n, ignore))

\* a driver calls recipe.resume()
RunResume == Resume

RunNext == RunCall \/ RunResume

SpecRun == RunInit /\ [][RunNext]_vars

\* the positions that hold a cube in grid g
Present(g) == {p \in Positions : g.node_map[p] # 0}

\* the entry i of a run's trace is the execution of a PAUSE command
IsPause(trace, i) == trace[i] >= 1 /\ Cmd(trace[i]) = "PAUSE"

\* the recipe of the presenter is PauseRecipe, not started, on an empty grid
AtPauseRecipe ==
    /\ recipe.commands = PauseRecipe
    /\ recipe.idx = 0
    /\ node_list = <<>>

\* PauseRecipe run twice with a resume in between: one node after the first
\* run, the second node after the second
PauseScenario ==
    AtPauseRecipe =>
        LET first == run(recipe, Grid, cycle, 100, FALSE)
            second == run(resume(first.recipe), first.grid,
                          cycle + first.steps, 100, FALSE)
        IN  /\ first.raised = ""
            /\ first.recipe.paused
            /\ Present(first.grid) = {<<0, 0, 0>>}
            /\ second.raised = ""
            /\ Present(second.grid) = {<<0, 0, 0>>, <<1, 0, 0>>}

RECURSIVE Cycles(_, _, _, _)

CyclesStepped(st, e, cyc, k, ignore) ==
    Cycles([recipe |-> IF ignore THEN resume(e.recipe) ELSE e.recipe,
            grid |-> st.grid], cyc + 1, k - 1, ignore)

CyclesNext(e, cyc, k, ignore) ==
    IF e.raised # "" THEN [recipe |-> e.recipe, grid |-> e.grid]
    ELSE CyclesStepped(step(e.grid, cyc + 1), e, cyc, k, ignore)

Cycles(s, cyc, k, ignore) ==
    IF k = 0 THEN s
    ELSE CyclesNext(execute_next(s.recipe, s.grid, cyc), cyc, k, ignore)

\* the recipe and the grid at the start of run, after its resume
Resumed == [recipe |-> resume(recipe), grid |-> Grid]

\* no PAUSE command was executed in the run with this trace
NeverPaused(trace) == \A i \in 1..Len(trace) : ~IsPause(trace, i)

DictHas(d, k) == \E i \in DOMAIN d : d[i][1] = k
DictGet(d, k) == d[CHOOSE i \in DOMAIN d : d[i][1] = k][2]
DictPut(d, k, v) ==
    IF DictHas(d, k)
    THEN [i \in DOMAIN d |-> IF d[i][1] = k THEN <<k, v>> ELSE d[i]]
    ELSE Append(d, <<k, v>>)
\* dict equality does not look at the order
DictEq(a, b) == {a[i] : i \in DOMAIN a} = {b[i] : i \in DOMAIN b}

BMF_DEFAULT_LINK_COST == 1

\* the packet classes
BMFNewNeighborPkt(src_addr) ==
    [type |-> "BMFNewNeighborPkt", src_addr |-> src_addr, dest_addr |-> None,
     link_cost |-> BMF_DEFAULT_LINK_COST, ack |-> FALSE]
BMFDistanceVectorPkt(src_addr, vector) ==
    [type |-> "BMFDistanceVectorPkt", src_addr |-> src_addr, dest_addr |-> None,
     vector |-> vector]
BMFDataPkt(src_addr, dest_addr, payload) ==
    [type |-> "BMFDataPkt", src_addr |-> src_addr, dest_addr |-> dest_addr,
     payload |-> payload]

\* DistanceTbl.__init__
DistanceTbl(my_addr) ==
    [my_addr |-> my_addr, distances |-> <<>>, neighbor_addr_pos |-> <<>>]

\* DistanceTbl.new_neighbor
new_neighbor(t, addr, pos, link_cost) ==
    LET row == IF DictHas(t.distances, addr) THEN DictGet(t.distances, addr) ELSE <<>>
    IN  [t EXCEPT !.distances = DictPut(@, addr, DictPut(row, addr, link_cost)),
                  !.neighbor_addr_pos = DictPut(@, addr, pos)]

\* DistanceTbl.update, the loop over distance_vector.items() from item i
RECURSIVE UpdateItems(_, _, _, _)
UpdateItems(t, vector, via, i) ==
    IF i > Len(vector) THEN t
    ELSE IF vector[i][1] = t.my_addr THEN UpdateItems(t, vector, via, i + 1)
    ELSE LET dest == vector[i][1]
             row == IF DictHas(t.distances, dest) THEN DictGet(t.distances, dest)
                    ELSE <<>>
             link_cost_to_via == DictGet(DictGet(t.distances, via), via)
         IN  UpdateItems([t EXCEPT !.distances =
                              DictPut(@, dest, DictPut(row, via,
                                                       vector[i][2] + link_cost_to_via))],
                         vector, via, i + 1)

\* DistanceTbl.update
update(t, distance_vector, via, via_pos) ==
    UpdateItems(IF DictHas(t.distances, via) THEN t
                ELSE new_neighbor(t, via, via_pos, BMF_DEFAULT_LINK_COST),
                distance_vector, via, 1)

\* DistanceTbl.update reads self._distances[via][via] for the first item of
\* the vector that is not about this node: a KeyError when via is known as a
\* destination only, never met as a neighbour
UpdateRaises(t, distance_vector, via) ==
    /\ DictHas(t.distances, via)
    /\ ~DictHas(DictGet(t.distances, via), via)
    /\ \E i \in DOMAIN distance_vector : distance_vector[i][1] # t.my_addr

\* the table that KeyError leaves: the row of the item's destination has
\* been created if it was new
UpdateRaised(t, distance_vector) ==
    LET first == CHOOSE i \in DOMAIN distance_vector :
                     /\ distance_vector[i][1] # t.my_addr
                     /\ \A j \in 1..(i - 1) : distance_vector[j][1] = t.my_addr
        dest == distance_vector[first][1]
    IN  IF DictHas(t.distances, dest) THEN t
        ELSE [t EXCEPT !.distances = DictPut(@, dest, <<>>)]

\* next_hop that keeps the via of greatest cost
next_hop_costliest(t, dest) ==
    IF dest = t.my_addr THEN <<t.my_addr>>
    ELSE IF ~DictHas(t.distances, dest) THEN <<>>
    ELSE LET dest_row == DictGet(t.distances, dest)
             worst == {i \in DOMAIN dest_row :
                          \A j \in DOMAIN dest_row :
                              /\ dest_row[i][2] >= dest_row[j][2]
                              /\ (dest_row[j][2] = dest_row[i][2] => i <= j)}
         IN  IF worst = {} THEN <<>>
             ELSE <<DictGet(t.neighbor_addr_pos,
                            dest_row[CHOOSE i \in worst : TRUE][1])>>

\* DistanceTbl.next_hop: <<>> for None, else <<position of the neighbour>>;
\* of the vias of least cost the one inserted first
next_hop(t, dest) ==
    IF dest = t.my_addr THEN <<t.my_addr>>
    ELSE IF ~DictHas(t.distances, dest) THEN <<>>
    ELSE LET dest_row == DictGet(t.distances, dest)
             best == {i \in DOMAIN dest_row :
                         \A j \in DOMAIN dest_row :
                             /\ dest_row[i][2] <= dest_row[j][2]
                             /\ (dest_row[j][2] = dest_row[i][2] => i <= j)}
         IN  IF best = {} THEN <<>>
             ELSE <<DictGet(t.neighbor_addr_pos,
                            dest_row[CHOOSE i \in best : TRUE][1])>>

\* min(via_row.values())
MinCost(via_row) ==
    CHOOSE m \in {via_row[i][2] : i \in DOMAIN via_row} :
        \A i \in DOMAIN via_row : m <= via_row[i][2]

\* DistanceTbl.get_distance_vector
get_distance_vector(t) ==
    [i \in DOMAIN t.distances |-> <<t.distances[i][1], MinCost(t.distances[i][2])>>]

\* BellmanFordData.__init__: last_dv and tx_data are <<>> for None, else <<value>>
BellmanFordData(my_addr) ==
    [distance_tbl |-> DistanceTbl(my_addr), last_dv |-> <<>>, tx_data |-> <<>>]

\* helpers.determine_tx_pos
determine_tx_pos(my_pos, rx_dir) == Shift(my_pos, rx_dir)

\* helpers.determine_tx_dir: -1 for None
determine_tx_dir(my_pos, neighbor_pos) ==
    IF neighbor_pos[1] = my_pos[1] + 1 THEN EAST
    ELSE IF neighbor_pos[1] = my_pos[1] - 1 THEN WEST
    ELSE IF neighbor_pos[2] = my_pos[2] + 1 THEN NORTH
    ELSE IF neighbor_pos[2] = my_pos[2] - 1 THEN SOUTH
    ELSE IF neighbor_pos[3] = my_pos[3] + 1 THEN UP
    ELSE IF neighbor_pos[3] = my_pos[3] - 1 THEN DOWN
    ELSE -1

\* for d in list(Direction): cube.send_packet(d, pkt)
RECURSIVE SendAll(_, _, _, _)
SendAll(cs, c, pkt, d) ==
    IF d > SOUTH THEN cs
    ELSE SendAll(send_packet(cs, c, d, pkt).cubes, c, pkt, d + 1)

\* BellmanFordRouting.send_new_neighbor_notif
send_new_neighbor_notif(cs, c) == SendAll(cs, c, BMFNewNeighborPkt(cs[c].id), UP)

\* BellmanFordRouting.got_new_neighbor_notif
got_new_neighbor_notif(cs, c, nn_pkt, rx_dir) ==
    LET neighbor_pos == determine_tx_pos(cs[c].position, rx_dir)
        added == [cs EXCEPT ![c].data.distance_tbl =
                      new_neighbor(@, nn_pkt.src_addr, neighbor_pos, nn_pkt.link_cost)]
    IN  IF ~nn_pkt.ack
        THEN send_packet(added, c, determine_tx_dir(cs[c].position, neighbor_pos),
                         [nn_pkt EXCEPT !.src_addr = cs[c].id, !.ack = TRUE]).cubes
        ELSE added

\* BellmanFordRouting.update_distance_tbl
update_distance_tbl(cs, c, dv_pkt, rx_dir) ==
    [cs EXCEPT ![c].data.distance_tbl =
         update(@, dv_pkt.vector, dv_pkt.src_addr,
                determine_tx_pos(cs[c].position, rx_dir))]

\* update_neighbors that sends the distance vector every time
update_neighbors_always(cs, c) ==
    LET vector == get_distance_vector(cs[c].data.distance_tbl) IN
    [SendAll(cs, c, BMFDistanceVectorPkt(cs[c].id, vector), UP)
         EXCEPT ![c].data.last_dv = <<vector>>]

\* BellmanFordRouting.update_neighbors
update_neighbors(cs, c) ==
    LET vector == get_distance_vector(cs[c].data.distance_tbl) IN
    IF cs[c].data.last_dv = <<>> \/ ~DictEq(cs[c].data.last_dv[1], vector)
    THEN [SendAll(cs, c, BMFDistanceVectorPkt(cs[c].id, vector), UP)
              EXCEPT ![c].data.last_dv = <<vector>>]
    ELSE cs

\* BellmanFordRouting.route_pkt. With no next hop the code evaluates
\* cube.num_pkts_dropped += 1 on the RoutingCube, which has no such attribute
route_pkt(cs, c, pkt) ==
    IF pkt.dest_addr = cs[c].id THEN [cubes |-> cs, raised |-> ""]
    ELSE LET hop == next_hop(cs[c].data.distance_tbl, pkt.dest_addr) IN
         IF hop = <<>> THEN [cubes |-> cs, raised |-> "AttributeError"]
         ELSE [cubes |-> send_packet(cs, c, determine_tx_dir(cs[c].position, hop[1]),
                                     pkt).cubes,
               raised |-> ""]

\* route, "Transmit a packet generated by this cube if one exists"; rx is the
\* outcome of the first half and ret what get_packet returned
RouteTx(rx, c, ret) ==
    IF rx.raised # "" THEN [cubes |-> rx.cubes, raised |-> rx.raised, ret |-> ret]
    ELSE IF rx.cubes[c].data.tx_data = <<>>
    THEN [cubes |-> rx.cubes, raised |-> "", ret |-> ret]
    ELSE LET tx == route_pkt(rx.cubes, c, rx.cubes[c].data.tx_data[1]) IN
         IF tx.raised # "" THEN [cubes |-> tx.cubes, raised |-> tx.raised, ret |-> ret]
         ELSE [cubes |-> [tx.cubes EXCEPT ![c].data.tx_data = <<>>], raised |-> "",
               ret |-> ret]

\* route, the handling of the packet get_packet returned
RouteRx(r, c) ==
    IF r.ret = None THEN [cubes |-> r.cubes, raised |-> ""]
    ELSE IF r.ret[1].type = "BMFNewNeighborPkt"
    THEN [cubes |-> update_neighbors(
                        got_new_neighbor_notif(r.cubes, c, r.ret[1], r.ret[2]), c),
          raised |-> ""]
    ELSE IF r.ret[1].type = "BMFDistanceVectorPkt"
    THEN IF UpdateRaises(r.cubes[c].data.distance_tbl, r.ret[1].vector,
                         r.ret[1].src_addr)
         THEN [cubes |-> [r.cubes EXCEPT ![c].data.distance_tbl =
                              UpdateRaised(@, r.ret[1].vector)],
               raised |-> "KeyError"]
         ELSE [cubes |-> update_neighbors(
                             update_distance_tbl(r.cubes, c, r.ret[1], r.ret[2]), c),
               raised |-> ""]
    ELSE IF r.ret[1].type = "BMFDataPkt" THEN route_pkt(r.cubes, c, r.ret[1])
    ELSE [cubes |-> r.cubes, raised |-> "TypeError"]

\* BellmanFordRouting.route, after get_packet returned r
Routed(r, c) == RouteTx(RouteRx(r, c), c, r.ret)

\* BellmanFordRouting.route
route(cs, c) == Routed(get_packet(cs, c), c)

\* BellmanFordRouting.power_on
power_on(cs, c) ==
    send_new_neighbor_notif([cs EXCEPT ![c].data = BellmanFordData(cs[c].id)], c)

\* BellmanFordRouting.send_packet
bmf_send_packet(cs, c, dest_addr, payload) ==
    [cs EXCEPT ![c].data.tx_data = <<BMFDataPkt(cs[c].id, dest_addr, payload)>>]

\* ---- a grid built with BellmanFordRouting and BellmanFordRobot
MaxBMFCubes == 3
MaxBMFSteps == 4
MaxBMFSends == 1

\* RoutingCube.MAX_Q_LEN as the class sets it
DefaultMaxQLen == 64

\* the grid's two algorithm objects: their hooks are the operators above, the
\* hook scripts of the grid operations stay empty
BellmanFord ==
    <<[name |-> "BellmanFordRouting", power_on |-> <<>>, route |-> <<>>],
      [name |-> "BellmanFordRobot", power_on |-> <<>>, step |-> <<>>]>>

\* the positions the drivers of a Bellman-Ford grid use: an L in the plane z = 0
BMFPositions == {<<0, 0, 0>>, <<1, 0, 0>>, <<1, 1, 0>>}

BMFGrid ==
    [NetworkGrid(BellmanFord[1], BellmanFord[2], DefaultMaxQLen)
         EXCEPT !.node_map = [p \in BMFPositions |-> 0]]

\* add_node: its last statement is routing_algorithm.power_on(node)
PoweredOn(g) == [g EXCEPT !.cubes = power_on(@, Len(@))]
bmf_add_node(g, pos, id) == PoweredOn(add_node(g, pos, id, 0, 0))

\* add_robot: add_node powers the cube on with the routing algorithm, then
\* robot_algorithm.power_on(robot) powers robot.cube on again
bmf_add_robot(g, pos, id) == PoweredOn(PoweredOn(add_robot(g, pos, id, 0)))

\* what a step has done so far: the cubes, the exception raised, the
\* get_packet results
LogOf(log, r, c, phase) ==
    IF r.ret = None THEN log
    ELSE Append(log, [by |-> c, pkt |-> r.ret[1], rx |-> r.ret[2], phase |-> phase])

AfterRoute(r, st, c, phase) ==
    [cubes |-> r.cubes, raised |-> r.raised, log |-> LogOf(st.log, r, c, phase)]

\* RoutingCube.step with BellmanFordRouting
bmf_cube_step(st, c) ==
    AfterRoute(route([st.cubes EXCEPT ![c].stats = reset_cycle_dependent_stats(@)], c),
               st, c, "route")

\* Robot.step with BellmanFordRobot: CUBE_ROUTING_ALGO.route(robot.cube)
bmf_robot_step(st, c) == AfterRoute(route(st.cubes, c), st, c, "robot")

\* the loops of NetworkGrid.step; an exception ends the step
RECURSIVE BMFRoutePhase(_, _, _)
BMFRoutePhase(st, order, i) ==
    IF i > Len(order) \/ st.raised # "" THEN st
    ELSE BMFRoutePhase(bmf_cube_step(st, order[i]), order, i + 1)

RECURSIVE BMFFlushPhase(_, _, _)
BMFFlushPhase(st, order, i) ==
    IF i > Len(order) \/ st.raised # "" THEN st
    ELSE BMFFlushPhase([st EXCEPT !.cubes[order[i]] = flush_buffers(@)], order, i + 1)

RECURSIVE BMFRobotPhase(_, _, _)
BMFRobotPhase(st, order, i) ==
    IF i > Len(order) \/ st.raised # "" THEN st
    ELSE BMFRobotPhase(bmf_robot_step(st, order[i]), order, i + 1)

\* the end of NetworkGrid.step: update_net_stats, unless an exception left it
BMFStepped(st, g) ==
    IF st.raised # ""
    THEN [grid |-> [g EXCEPT !.cubes = st.cubes], raised |-> st.raised, log |-> st.log]
    ELSE [grid |-> update_net_stats([g EXCEPT !.cubes = st.cubes]), raised |-> "",
          log |-> st.log]

\* NetworkGrid.step of a Bellman-Ford grid
bmf_step(g) ==
    BMFStepped(
        BMFRobotPhase(
            BMFFlushPhase(
                BMFRoutePhase([cubes |-> g.cubes, raised |-> "", log |-> <<>>],
                              g.node_list, 1),
                g.node_list, 1),
            g.robot_list, 1),
        g)

\* NetworkGrid.send_packet_by_coords, the destination id it passes on
dest_id_by_coords(g, dest_coords) ==
    IF get_node(g.node_map, dest_coords) = 0 THEN IntId(-1)
    ELSE g.cubes[get_node(g.node_map, dest_coords)].id

\* NetworkGrid.send_packet_by_coords of a Bellman-Ford grid
BMFSent(call, g, dest_id, payload) ==
    IF call.raised # "" THEN [grid |-> g, raised |-> call.raised]
    ELSE [grid |-> [g EXCEPT !.cubes = bmf_send_packet(@, call.on, dest_id, payload)],
          raised |-> ""]

bmf_send_packet_by_coords(g, payload, src_coords, dest_coords) ==
    BMFSent(send_packet_by_coords(g, src_coords), g,
            dest_id_by_coords(g, dest_coords), payload)

\* ---- the drivers of a Bellman-Ford grid
BMFInit ==
    /\ InitGrid(BMFGrid)
    /\ cycle = 0
    /\ got = <<>>
    /\ NoRecipe

\* the driver has not been stopped by an exception
Alive == raised = ""

BMFAddNodeIn(positions, bound) ==
    /\ Alive
    /\ Len(cubes) < bound
    /\ \E pos \in positions : Install(bmf_add_node(Grid, pos, None))
    /\ UNCHANGED <<cycle, got, recipe, executed, raised>>

BMFAddRobotIn(positions, bound) ==
    /\ Alive
    /\ Len(cubes) < bound
    /\ \E pos \in positions : Install(bmf_add_robot(Grid, pos, None))
    /\ UNCHANGED <<cycle, got, recipe, executed, raised>>

BMFAddNode == BMFAddNodeIn(BMFPositions, MaxBMFCubes)

BMFAddRobot == BMFAddRobotIn(BMFPositions, MaxBMFCubes)

\* the data packets sent so far: executed counts the calls
InstallSent(out) ==
    /\ Install(out.grid)
    /\ raised' = out.raised
    /\ executed' = Append(executed, 1)

BMFSend ==
    /\ Alive
    /\ Len(executed) < MaxBMFSends
    /\ \E src \in BMFPositions, dest \in BMFPositions :
           InstallSent(bmf_send_packet_by_coords(Grid, 9, src, dest))
    /\ UNCHANGED <<cycle, got, recipe>>

InstallStep(out) ==
    /\ Install(out.grid)
    /\ raised' = out.raised
    /\ got' = out.log

BMFStepUpTo(bound) ==
    /\ Alive
    /\ cycle < bound
    /\ InstallStep(bmf_step(Grid))
    /\ cycle' = cycle + 1
    /\ UNCHANGED <<recipe, executed>>

BMFStep == BMFStepUpTo(MaxBMFSteps)

BMFNext == BMFAddNode \/ BMFAddRobot \/ BMFSend \/ BMFStep

SpecBMF == BMFInit /\ [][BMFNext]_vars

\* ---- two positions side by side, no data packets: the distance tables
MaxPairCubes == 2
MaxPairSteps == 5
MaxLaterCycles == 3

PairPositions == {<<0, 0, 0>>, <<1, 0, 0>>}

PairAddNode == BMFAddNodeIn(PairPositions, MaxPairCubes)

PairAddRobot == BMFAddRobotIn(PairPositions, MaxPairCubes)

PairStep == BMFStepUpTo(MaxPairSteps)

PairNext == PairAddNode \/ PairAddRobot \/ PairStep

SpecPair == BMFInit /\ [][PairNext]_vars

\* k grid steps in a row from grid g; the grid they leave
RECURSIVE BMFSteps(_, _)
BMFStepsOn(out, k) == IF out.raised # "" THEN out.grid ELSE BMFSteps(out.grid, k - 1)
BMFSteps(g, k) == IF k = 0 THEN g ELSE BMFStepsOn(bmf_step(g), k)

\* cube c's distance table holds destination dest with this cost via the cube via
Holds(g, c, dest, cost, via) ==
    LET distances == g.cubes[c].data.distance_tbl.distances IN
    /\ DictHas(distances, g.cubes[dest].id)
    /\ DictHas(DictGet(distances, g.cubes[dest].id), g.cubes[via].id)
    /\ DictGet(DictGet(distances, g.cubes[dest].id), g.cubes[via].id) = cost

\* cube A (object 1) at (0,0,0), then cube B (object 2) added at (1,0,0),
\* neither a robot's, and no grid step since B was added: B's notification
\* still lies on A's EAST face
PairJustAdded ==
    /\ Len(cubes) = 2
    /\ node_list = <<1, 2>>
    /\ robot_list = <<>>
    /\ node_map[<<0, 0, 0>>] = 1
    /\ node_map[<<1, 0, 0>>] = 2
    /\ cubes[1].faces[EAST] = <<BMFNewNeighborPkt(cubes[2].id)>>

\* the packets the cubes of g have sent so far
SentSoFar(g) == [c \in 1..Len(g.cubes) |-> g.cubes[c].stats.num_pkts_sent]

MaxConvergeCycles == 12
MaxDeliveryCycles == 4

\* k grid steps in a row from grid g: the grid they leave, the exception that
\* ended them, and the get_packet results of all of them
RECURSIVE BMFRun(_, _)
BMFRunOn(out, run_so_far, k) ==
    IF out.raised # ""
    THEN [grid |-> out.grid, raised |-> out.raised, log |-> run_so_far.log \o out.log]
    ELSE BMFRun([grid |-> out.grid, raised |-> "", log |-> run_so_far.log \o out.log],
                k - 1)
BMFRun(run_so_far, k) ==
    IF k = 0 THEN run_so_far ELSE BMFRunOn(bmf_step(run_so_far.grid), run_so_far, k)

\* the cube at position p of grid g
CubeAt(g, p) == g.node_map[p]

\* node cubes at (0,0,0), (1,0,0) and (1,1,0), none of them a robot's, none
\* replaced, and no data packet sent yet
LShape ==
    /\ Alive
    /\ Len(cubes) = 3
    /\ Len(node_list) = 3
    /\ robot_list = <<>>
    /\ \A p \in BMFPositions : node_map[p] # 0
    /\ executed = <<>>

\* the grid after the distance tables have converged
Converged == BMFSteps(Grid, MaxConvergeCycles)

\* nothing is under way in g: faces and queues are empty, and a further step
\* sends nothing
Quiet(g) ==
    /\ \A c \in 1..Len(g.cubes) :
           /\ g.cubes[c].packets = <<>>
           /\ \A d \in Dirs : g.cubes[c].faces[d] = <<>>
    /\ SentSoFar(bmf_step(g).grid) = SentSoFar(g)

\* the Data packet originated at (0,0,0) for the id of (1,1,0), and the
\* steps that follow
Delivery(g) ==
    BMFRun([grid |-> bmf_send_packet_by_coords(g, 9, <<0, 0, 0>>, <<1, 1, 0>>).grid,
            raised |-> "", log |-> <<>>],
           MaxDeliveryCycles)

\* the Data packets cube c took from its queue, in a log of get_packet results
DataTakenBy(log, c) ==
    {i \in 1..Len(log) : log[i].by = c /\ log[i].pkt.type = "BMFDataPkt"}

\* the counter of correctly routed packets of a cube, where it has one
CorrectlyRouted(cube) ==
    IF "correctly_routed_pkts_this_cycle" \in DOMAIN cube.stats
    THEN cube.stats.correctly_routed_pkts_this_cycle
    ELSE 0

\* the tables converge, and the Data packet goes via (1,0,0) to (1,1,0),
\* which takes it from its queue exactly once; no cube counts a drop
DataArrives ==
    LShape =>
        LET conv == Converged
            d == Delivery(conv)
        IN  /\ Quiet(conv)
            /\ d.raised = ""
            /\ Cardinality(DataTakenBy(d.log, CubeAt(conv, <<1, 0, 0>>))) = 1
            /\ Cardinality(DataTakenBy(d.log, CubeAt(conv, <<1, 1, 0>>))) = 1
            /\ DataTakenBy(d.log, CubeAt(conv, <<0, 0, 0>>)) = {}
            /\ \A c \in 1..3 :
                   d.grid.cubes[c].stats.num_pkts_dropped
                       = conv.cubes[c].stats.num_pkts_dropped
            /\ Quiet(d.grid)

\* C25: on the L of three Bellman-Ford cubes with converged tables, a Data
\* packet from (0,0,0) for the id of (1,1,0) is forwarded via (1,0,0), taken
\* from its queue by (1,1,0) exactly once, recorded there and nowhere else as
\* one correctly routed packet, and counted as dropped by no cube.
C25_DataRecorded ==
    /\ DataArrives
    /\ LShape =>
           LET conv == Converged
               dest == CubeAt(conv, <<1, 1, 0>>)
           IN  \E k \in 1..MaxDeliveryCycles :
                   LET d == BMFRun([grid |-> bmf_send_packet_by_coords(
                                                 conv, 9, <<0, 0, 0>>, <<1, 1, 0>>).grid,
                                    raised |-> "", log |-> <<>>], k)
                   IN  /\ DataTakenBy(d.log, dest) # {}
                       /\ CorrectlyRouted(d.grid.cubes[dest]) = 1
                       /\ \A c \in (1..3) \ {dest} :
                              CorrectlyRouted(d.grid.cubes[c]) = 0

\* the Data packet cube c routes next when it is the only one: the packet at
\* the head of its queue, or with an empty queue the packet staged in tx_data;
\* <<>> when there is none
DataToRoute(cube) ==
    IF cube.packets # <<>>
    THEN IF Head(cube.packets)[1].type = "BMFDataPkt" /\ cube.data.tx_data = <<>>
         THEN <<Head(cube.packets)[1]>>
         ELSE <<>>
    ELSE cube.data.tx_data

\* the cube has no way to the destination of the packet and is not it
UnknownDest(cube, pkt) ==
    /\ pkt.dest_addr # cube.id
    /\ ~DictHas(cube.data.distance_tbl.distances, pkt.dest_addr)

\* C26: a Bellman-Ford cube that routes a Data packet, received or staged in
\* tx_data, whose destination is not its own id and is not in its distance
\* table discards the packet and adds 1 to its num_pkts_dropped and to its
\* num_pkts_dropped_this_cycle; no error is raised and the grid step ends
\* normally.
C26_UnknownDestDropped ==
    \A i \in 1..Len(node_list) :
        LET c == node_list[i]
            cube == cubes[c]
            r == route(cubes, c)
        IN  (DataToRoute(cube) # <<>> /\ UnknownDest(cube, DataToRoute(cube)[1])) =>
                /\ r.raised = ""
                /\ r.cubes[c].data.tx_data = <<>>
                /\ r.cubes[c].stats.num_pkts_dropped = cube.stats.num_pkts_dropped + 1
                /\ r.cubes[c].stats.num_pkts_dropped_this_cycle
                       = cube.stats.num_pkts_dropped_this_cycle + 1
                /\ bmf_step(Grid).raised = ""

\* C27: under Bellman-Ford with its robot algorithm, a grid step takes at
\* most one packet from the queue of each cube, a robot's cube included.
C27_OnePacketPerCube ==
    \A c \in 1..Len(cubes) :
        Cardinality({i \in 1..Len(got) : got[i].by = c}) <= 1

\* ------------------------------------------------------------ get_layer
\* the array get_layer starts from: one row per y, one cell per x of the bounds
EmptyLayer(b) == [r \in 1..(b[4] - b[3] + 1) |-> [c \in 1..(b[2] - b[1] + 1) |-> 0]]

RECURSIVE get_layer_dfs(_, _, _, _, _, _)

\* the body of the loop once (x, y) is inside the bounds and not yet visited
get_layer_visit(g, z, b, stack, visited, layer, xy, node) ==
    IF node = 0
    THEN get_layer_dfs(g, z, b, stack, visited \cup {xy}, layer)
    ELSE get_layer_dfs(g, z, b,
             stack \o << <<xy[1] + 1, xy[2]>>, <<xy[1] - 1, xy[2]>>,
                         <<xy[1], xy[2] + 1>>, <<xy[1], xy[2] - 1>> >>,
             visited \cup {xy},
             [layer EXCEPT ![xy[2] - b[3] + 1][xy[1] - b[1] + 1] = node])

\* NetworkGrid.get_layer, the depth-first traversal: stack.pop() takes the
\* last element
get_layer_dfs(g, z, b, stack, visited, layer) ==
    IF stack = <<>> THEN layer
    ELSE LET xy == stack[Len(stack)]
             rest == SubSeq(stack, 1, Len(stack) - 1)
         IN  IF xy[1] < b[1] \/ xy[1] > b[2] \/ xy[2] < b[3] \/ xy[2] > b[4]
             THEN get_layer_dfs(g, z, b, rest, visited, layer)
             ELSE IF xy \in visited
             THEN get_layer_dfs(g, z, b, rest, visited, layer)
             ELSE get_layer_visit(g, z, b, rest, visited, layer, xy,
                      get_node(g.node_map, <<xy[1], xy[2], z>>))

\* NetworkGrid.get_layer: None when the plane never had an entry point
get_layer(g, z) ==
    IF g.layer_entry_points[z] = 0 THEN None
    ELSE LET entry == g.cubes[g.layer_entry_points[z]].position
         IN  get_layer_dfs(g, z, g.layer_bounds[z],
                 << <<entry[1], entry[2]>> >>, {}, EmptyLayer(g.layer_bounds[z]))

\* the positions of plane z that hold a cube now
InPlane(g, z) == {p \in Positions : p[3] = z /\ get_node(g.node_map, p) # 0}

\* the cell of the array where the cube at p belongs (0 outside the array)
CellOf(layer, b, p) ==
    IF /\ p[2] - b[3] + 1 \in DOMAIN layer
       /\ p[1] - b[1] + 1 \in DOMAIN layer[p[2] - b[3] + 1]
    THEN layer[p[2] - b[3] + 1][p[1] - b[1] + 1]
    ELSE 0

\* the array holds exactly the cubes of `present`, each in its cell
LayerShows(g, layer, b, present) ==
    /\ \A p \in present : CellOf(layer, b, p) = get_node(g.node_map, p)
    /\ \A r \in DOMAIN layer : \A c \in DOMAIN layer[r] :
           layer[r][c] # 0 =>
               \E p \in present : p[2] - b[3] + 1 = r /\ p[1] - b[1] + 1 = c

\* C28: get_layer(z) returns None when no cube is in plane z now, and
\* otherwise the array with every cube now in the plane at
\* [y - min_y][x - min_x] and every other cell empty, also for cubes that are
\* not connected to the entry point and after the entry cube was removed.
C28_LayerComplete ==
    \A z \in Layers :
        IF InPlane(Grid, z) = {}
        THEN get_layer(Grid, z) = None
        ELSE /\ get_layer(Grid, z) # None
             /\ LayerShows(Grid, get_layer(Grid, z), layer_bounds[z], InPlane(Grid, z))

\* ------------------------------------------------- the Template algorithm
\* cubes and grid steps of a grid that runs the Template algorithm
MaxTemplateCubes == 3
MaxTemplateSteps == 3
\* send_packet calls made on cubes by the driver
MaxTemplateSends == 2

\* a Python call binds its arguments to the parameters of the function and
\* raises TypeError when there are more or fewer of them
Bound(params, args) == IF Len(params) = Len(args) THEN "" ELSE "TypeError"

\* def power_on(self), def route(cube) of Template; def get_packet(self) of
\* RoutingCube
Template_power_on_params == <<"self">>
Template_route_params == <<"cube">>
get_packet_params == <<"self">>

\* the grid's algorithm objects: the Template hooks are the operators below,
\* RobotAlgorithm's hooks do nothing
Template ==
    <<[name |-> "Template", power_on |-> <<>>, route |-> <<>>],
      [name |-> "RobotAlgorithm", power_on |-> <<>>, step |-> <<>>]>>

\* the positions of the demonstration: three cubes in a row
TemplatePositions == {<<0, 0, 0>>, <<1, 0, 0>>, <<2, 0, 0>>}

TemplateGrid ==
    [NetworkGrid(Template[1], Template[2], DefaultMaxQLen)
         EXCEPT !.node_map = [p \in TemplatePositions |-> 0]]

\* routing_algorithm.power_on(node): the bound method is handed self and node
template_power_on(cs, c) ==
    [cubes |-> cs, raised |-> Bound(Template_power_on_params, <<"self", c>>)]

\* routing_algorithm.route(cube): the bound method is handed self and cube;
\* the first statement of the body is cube.get_packet(Direction.UP), past
\* which no call gets
template_route(cs, c) ==
    IF Bound(Template_route_params, <<"self", c>>) # ""
    THEN [cubes |-> cs, raised |-> Bound(Template_route_params, <<"self", c>>)]
    ELSE [cubes |-> cs, raised |-> Bound(get_packet_params, <<c, UP>>)]

\* add_node: the cube is in the grid and linked when power_on is called last
TemplatePoweredOn(g) ==
    [grid |-> g, raised |-> template_power_on(g.cubes, Len(g.cubes)).raised]

template_add_node(g, pos, id) == TemplatePoweredOn(add_node(g, pos, id, 0, 0))

\* RoutingCube.step with Template
TemplateRouted(r, st) == [cubes |-> r.cubes, raised |-> r.raised, log |-> st.log]

template_cube_step(st, c) ==
    TemplateRouted(
        template_route([st.cubes EXCEPT ![c].stats = reset_cycle_dependent_stats(@)], c),
        st)

RECURSIVE TemplateRoutePhase(_, _, _)
TemplateRoutePhase(st, order, i) ==
    IF i > Len(order) \/ st.raised # "" THEN st
    ELSE TemplateRoutePhase(template_cube_step(st, order[i]), order, i + 1)

\* NetworkGrid.step of a Template grid; its robot_list is empty
template_step(g) ==
    BMFStepped(
        BMFFlushPhase(
            TemplateRoutePhase([cubes |-> g.cubes, raised |-> "", log |-> <<>>],
                               g.node_list, 1),
            g.node_list, 1),
        g)

\* grid.get_node(x, y, z).send_packet(direction, packet) of the driver
template_send(g, pos, d, pkt) ==
    IF get_node(g.node_map, pos) = 0
    THEN [grid |-> g, raised |-> "AttributeError"]
    ELSE [grid |-> [g EXCEPT !.cubes =
                        send_packet(@, get_node(g.node_map, pos), d, pkt).cubes],
          raised |-> ""]

TemplateInit ==
    /\ InitGrid(TemplateGrid)
    /\ cycle = 0
    /\ got = <<>>
    /\ NoRecipe

\* the calls of a driver that goes on after an exception; raised is the
\* outcome of its last call
InstallOutcome(out) ==
    /\ Install(out.grid)
    /\ raised' = out.raised

TemplateAddNode ==
    /\ Len(cubes) < MaxTemplateCubes
    /\ \E pos \in TemplatePositions : InstallOutcome(template_add_node(Grid, pos, None))
    /\ UNCHANGED <<cycle, got, recipe, executed>>

TemplateSend ==
    /\ Len(executed) < MaxTemplateSends
    /\ \E pos \in TemplatePositions, d \in {WEST, EAST} :
           InstallOutcome(template_send(Grid, pos, d, "Hello"))
    /\ executed' = Append(executed, 1)
    /\ UNCHANGED <<cycle, got, recipe>>

TemplateStep ==
    /\ cycle < MaxTemplateSteps
    /\ InstallOutcome(template_step(Grid))
    /\ cycle' = cycle + 1
    /\ UNCHANGED <<got, recipe, executed>>

TemplateNext == TemplateAddNode \/ TemplateSend \/ TemplateStep

SpecTemplate == TemplateInit /\ [][TemplateNext]_vars

\* the demonstration before its first step: the three cubes are in place and
\* the one packet sent WEST from (2,0,0) waits on the EAST face of (1,0,0)
HelloSent ==
    /\ cycle = 0
    /\ \A p \in TemplatePositions : get_node(node_map, p) # 0
    /\ \A c \in 1..Len(cubes) :
           /\ cubes[c].packets = <<>>
           /\ \A d \in Dirs :
                  cubes[c].faces[d] =
                      IF c = get_node(node_map, <<1, 0, 0>>) /\ d = EAST
                      THEN <<"Hello">> ELSE <<>>

\* the queue of the cube at p
QueueAt(g, p) == g.cubes[get_node(g.node_map, p)].packets

\* three consecutive grid steps
ThreeSteps(s1, s2, s3) ==
    /\ s1.raised = "" /\ s2.raised = "" /\ s3.raised = ""
    /\ QueueAt(s1.grid, <<1, 0, 0>>) = << <<"Hello", EAST>> >>
    /\ QueueAt(s2.grid, <<0, 0, 0>>) = << <<"Hello", EAST>> >>
    /\ s3.grid.cubes[CubeAt(s3.grid, <<0, 0, 0>>)].stats.num_pkts_sent_this_cycle = 1
    /\ QueueAt(s3.grid, <<1, 0, 0>>) = << <<"Hello", WEST>> >>

\* C29: with the Template algorithm on cubes at (0,0,0), (1,0,0), (2,0,0) and
\* a packet sent WEST from (2,0,0) before the first step, after step 1 the
\* queue of (1,0,0) holds exactly that packet tagged EAST, after step 2 the
\* queue of (0,0,0) holds exactly that packet tagged EAST, and in step 3 the
\* cube at (0,0,0) sends it EAST and it arrives at (1,0,0).
C29_TemplateBounce ==
    HelloSent =>
        ThreeSteps(template_step(Grid),
                   template_step(template_step(Grid).grid),
                   template_step(template_step(template_step(Grid).grid).grid))

\* ------------------------------------------------- queue length records
\* highest_q_len of every cube ever constructed covers its queue
HighestCoversQueue ==
    \A c \in 1..Len(cubes) : cubes[c].stats.highest_q_len >= current_q_len(cubes[c])

\* one call: no cube's highest_q_len and not the network's max_highest_q_len
\* goes down, and a grid.step() leaves max_highest_q_len at or above the
\* highest_q_len of every cube of node_list
QLenRecordsKept ==
    /\ \A c \in 1..Len(cubes) :
           cubes'[c].stats.highest_q_len >= cubes[c].stats.highest_q_len
    /\ stats'.max_highest_q_len >= stats.max_highest_q_len
    /\ cycle' # cycle =>
           \A i \in 1..Len(node_list') :
               stats'.max_highest_q_len >= cubes'[node_list'[i]].stats.highest_q_len

Call(name, c) == [call |-> name, on |-> c]

NodeStepCalls(nl) ==
    [k \in 1..(2 * Len(nl)) |->
        IF k % 2 = 1 THEN Call("reset_cycle_dependent_stats", nl[(k + 1) \div 2])
        ELSE Call("route", nl[k \div 2])]

FlushCalls(nl) == [k \in 1..Len(nl) |-> Call("flush_buffers", nl[k])]

BMFRobotStepCalls(rl) ==
    [k \in 1..(2 * Len(rl)) |->
        IF k % 2 = 1 THEN Call("robot_algorithm.step", rl[(k + 1) \div 2])
        ELSE Call("route", rl[k \div 2])]

bmf_step_calls(g) ==
    NodeStepCalls(g.node_list) \o FlushCalls(g.node_list)
        \o BMFRobotStepCalls(g.robot_list) \o <<Call("update_net_stats", 0)>>

\* every call named a comes before every call named b
AllBefore(t, a, b) ==
    \A i \in 1..Len(t), j \in 1..Len(t) : (t[i].call = a /\ t[j].call = b) => i < j

\* how often the call is made on cube c
TimesCalled(t, name, c) == Cardinality({i \in 1..Len(t) : t[i] = Call(name, c)})

\* C31: in every grid.step() every cube's counter reset and route call comes
\* before any flush, every flush before any robot_algorithm.step, and
\* update_net_stats after the last robot step; each cube is routed exactly
\* once and flushed exactly once.
C31_PhasesOrdered ==
    bmf_step(Grid).raised = "" =>
        /\ AllBefore(bmf_step_calls(Grid), "reset_cycle_dependent_stats", "flush_buffers")
        /\ AllBefore(bmf_step_calls(Grid), "route", "flush_buffers")
        /\ AllBefore(bmf_step_calls(Grid), "flush_buffers", "robot_algorithm.step")
        /\ AllBefore(bmf_step_calls(Grid), "robot_algorithm.step", "update_net_stats")
        /\ \A i \in 1..Len(node_list) :
               /\ TimesCalled(bmf_step_calls(Grid), "route", node_list[i]) = 1
               /\ TimesCalled(bmf_step_calls(Grid), "flush_buffers", node_list[i]) = 1

\* ------------------------------------------------------------ quiescence
\* a grid step of g raises nothing and changes nothing but the cycle counters:
\* every queue and inbound face is empty, before and after, no cube sends, and
\* the routing data stay, so every later step does the same
Settled(g) ==
    /\ bmf_step(g).raised = ""
    /\ \A c \in 1..Len(g.cubes) :
           /\ g.cubes[c].packets = <<>>
           /\ \A d \in Dirs : g.cubes[c].faces[d] = <<>>
           /\ bmf_step(g).grid.cubes[c].packets = <<>>
           /\ bmf_step(g).grid.cubes[c].faces = g.cubes[c].faces
           /\ bmf_step(g).grid.cubes[c].data = g.cubes[c].data
           /\ bmf_step(g).grid.cubes[c].stats.num_pkts_sent = g.cubes[c].stats.num_pkts_sent

\* the grid steps from here on, with no other call between them
StepsFromHere == BMFRun([grid |-> Grid, raised |-> "", log |-> <<>>], MaxConvergeCycles)

\* C32: on a Bellman-Ford grid whose set of cubes no longer changes, repeated
\* grid.step() reaches a state in which every queue and every inbound face
\* is empty and from which no cube sends a packet in any later cycle.
C32_Quiesces ==
    Alive => (StepsFromHere.raised = "" /\ Settled(StepsFromHere.grid))

\* ------------------------------------------------------- shortest paths
\* the positions of the position map that hold a cube
PresentAt(g) == {p \in DOMAIN g.node_map : g.node_map[p] # 0}

Adjacent(p, q) == \E d \in Dirs : Shift(p, d) = q

\* the present positions a path of at most k hops through present cubes
\* reaches from p
RECURSIVE WithinHops(_, _, _)
WithinHops(g, p, k) ==
    IF k = 0 THEN {p}
    ELSE WithinHops(g, p, k - 1)
             \cup {q \in PresentAt(g) : \E r \in WithinHops(g, p, k - 1) : Adjacent(r, q)}

\* the hops of a shortest lattice path from p to q, -1 when there is none
Hops(g, p, q) ==
    IF q \notin WithinHops(g, p, Cardinality(PresentAt(g))) THEN -1
    ELSE CHOOSE k \in 0..Cardinality(PresentAt(g)) :
             /\ q \in WithinHops(g, p, k)
             /\ \A j \in 0..(k - 1) : q \notin WithinHops(g, p, j)

ConnectedGrid(g) ==
    \A p \in PresentAt(g), q \in PresentAt(g) : Hops(g, p, q) >= 0

\* the table of the cube at p is right about the cube at q
RouteRight(g, p, q) ==
    LET t == g.cubes[g.node_map[p]].data.distance_tbl
        dest == g.cubes[g.node_map[q]].id
        dv == get_distance_vector(t)
    IN  /\ DictHas(dv, dest)
        /\ DictGet(dv, dest) = Hops(g, p, q)
        /\ next_hop(t, dest) # <<>>
        /\ Adjacent(p, next_hop(t, dest)[1])
        /\ next_hop(t, dest)[1] \in PresentAt(g)
        /\ Hops(g, next_hop(t, dest)[1], q) = Hops(g, p, q) - 1

\* a grid built by add_node only: no robots, no cube replaced or removed
BuiltByAddNode(g) ==
    /\ g.robot_list = <<>>
    /\ Len(g.node_list) = Len(g.cubes)
    /\ Cardinality(PresentAt(g)) = Len(g.cubes)

\* ---- the L of three positions, cubes added by add_node only
MaxLCubes == 3
MaxLSteps == 8

LAddNode == BMFAddNodeIn(BMFPositions, MaxLCubes)

LStep == BMFStepUpTo(MaxLSteps)

LNext == LAddNode \/ LStep

SpecL == BMFInit /\ [][LNext]_vars

C34_ListIsMap ==
    /\ \A i \in 1..Len(node_list) :
           get_node(node_map, cubes[node_list[i]].position) = node_list[i]
    /\ \A p \in PresentAt(Grid) :
           Cardinality({i \in 1..Len(node_list) : node_list[i] = node_map[p]}) = 1
    /\ \A p \in PresentAt(Grid) :
           get_node_by_id(Grid, cubes[node_map[p]].id) = node_map[p]

\* ------------------------------------------------ conservation of packets
\* the packets lying on the inbound faces of the cubes cs
FacePkts(cs) ==
    UNION {{cs[o].faces[d][i] : i \in DOMAIN cs[o].faces[d]} :
              o \in DOMAIN cs, d \in Dirs}

\* a counter of cube c before the call; a cube the call constructs starts at 0
Before(c, field) == IF c <= Len(cubes) THEN cubes[c].stats[field] ELSE 0
QueueBefore(c) == IF c <= Len(cubes) THEN Len(cubes[c].packets) ELSE 0

\* the packets cube c handed to a neighbour during the call: they lie on a
\* face between the route loop and the flush loop of a grid step, or after the
\* call
HandedOver(c) ==
    {p \in FacePkts(IF cycle' # cycle THEN MidStep ELSE cubes) \cup FacePkts(cubes') :
        p.src = c /\ p.seq > Before(c, "num_pkts_sent")}

\* the send_packet calls of cube c during the call that returned false
FailedSends(c) ==
    (cubes'[c].stats.num_pkts_sent - Before(c, "num_pkts_sent")) - Cardinality(HandedOver(c))

\* the packets get_packet returned to cube c during the call
Returned(c) ==
    IF cycle' # cycle THEN Cardinality({i \in DOMAIN got' : got'[i].by = c}) ELSE 0

\* the packets of cube c's faces that find no room when a grid step flushes it
Overflow(c) ==
    IF cycle' # cycle /\ \E i \in DOMAIN node_list : node_list[i] = c
    THEN Max(0, Len(MidStep[c].packets)
                    + Cardinality(UNION {{<<d, i>> : i \in DOMAIN MidStep[c].faces[d]} :
                                            d \in Dirs})
                    - MAX_Q_LEN)
    ELSE 0

\* one call of the driver keeps the accounts of every cube
Conserved ==
    \A c \in 1..Len(cubes') :
        /\ cubes'[c].stats.num_pkts_received - Before(c, "num_pkts_received")
               = (Len(cubes'[c].packets) - QueueBefore(c)) + Returned(c) + Overflow(c)
        /\ cubes'[c].stats.num_pkts_dropped - Before(c, "num_pkts_dropped")
               = Overflow(c) + FailedSends(c)

\* C35: for every cube num_pkts_received is the packets in its queue plus
\* the packets its get_packet has returned plus the packets discarded on
\* overflow, and num_pkts_dropped is the overflow discards plus its
\* send_packet calls that returned false: a new cube starts with all of them
\* at 0 and every call changes both sides by the same amount.
C35_PacketsConserved == [][Conserved]_vars

\* a cube that has received four packets: one was returned, one found the
\* queue full, two are queued
C35_Witness ==
    \E c \in 1..Len(cubes) :
        /\ cubes[c].stats.num_pkts_received = 4
        /\ Len(cubes[c].packets) = 2
        /\ cubes[c].stats.num_pkts_dropped >= 1
        /\ \E i \in DOMAIN got : got[i].by = c

\* ------------------------------------------------------ the recipe index
\* the index stays inside the recipe, and inside a loop it is past the LOOP
\* command that loop_idx points at
IndexInRange ==
    /\ 0 <= recipe.idx
    /\ recipe.idx <= recipe.length
    /\ recipe.in_loop =>
           /\ recipe.loop_idx < recipe.idx
           /\ Cmd(recipe.loop_idx + 1) = "LOOP"

\* a call that raises nothing leaves idx, adds 1 to it, or, handling an ENDL
\* with iterations remaining, sets it to loop_idx + 1
IndexMoves ==
    raised' = "" =>
        \/ recipe'.idx = recipe.idx
        \/ recipe'.idx = recipe.idx + 1
        \/ /\ is_running(recipe)
           /\ recipe.wait_cycles_remaining = 0
           /\ Cmd(recipe.idx + 1) = "ENDL"
           /\ recipe.in_loop
           /\ recipe.loop_iters_remaining # 0
           /\ recipe'.idx = recipe.loop_idx + 1

\* C36: after every execute_next call that returns without error
\* 0 <= idx <= length, in_loop implies loop_idx < idx and a LOOP command at
\* loop_idx, and idx changes by at most +1 per call except when an ENDL with
\* iterations remaining sets it to loop_idx + 1.
C36_IndexInRange == [](IndexInRange) /\ [][IndexMoves]_vars

\* inside a loop, just after its ENDL sent the recipe back to the first
\* command of the body
C36_Witness ==
    /\ recipe.in_loop
    /\ recipe.idx = recipe.loop_idx + 1
    /\ recipe.length > recipe.idx + 1
    /\ \E e \in 1..recipe.length : Cmd(e) = "ENDL" /\ executed[e] >= 1

\* C37: after a WAIT n (n > 0) has been handled, is_running() stays true
\* until the n wait cycles have been counted down, so that a driver loop
\* "while recipe.is_running(): execute_next; grid.step()" performs those n
\* grid steps, also when WAIT is the last command of the recipe.
C37_WaitKeepsRunning ==
    recipe.wait_cycles_remaining > 0 => is_running(recipe)

\* ------------------------------------------------ runs that do not end
\* the length of the recipes with loops of negative count
MaxForeverRecipeLen == 3
\* the cycles a run is followed for
MaxForeverCycles == 4

\* the commands of these recipes; LOOP -1 never counts down to 0
ForeverAlphabet ==
    {Comm("ADDN", <<0, 0, 0>>), Comm("ENDL", <<>>), Comm("PAUSE", <<>>),
     Comm("LOOP", <<1>>), Comm("LOOP", <<-1>>)}

ForeverRecipes == UNION {[1..n -> ForeverAlphabet] : n \in 0..MaxForeverRecipeLen}

ForeverInit ==
    /\ InitGrid(NetworkGrid(BaseAlgo[1], BaseAlgo[2], QCap))
    /\ cycle = 0
    /\ got = <<>>
    /\ \E commands \in ForeverRecipes :
           /\ recipe = Recipe(commands)
           /\ executed = [i \in 1..Len(commands) |-> 0]
    /\ raised = ""

\* a driver calls presenter.run(1, ignore): resume and one cycle
ForeverRunCall ==
    /\ cycle < MaxForeverCycles
    /\ \E ignore \in BOOLEAN : InstallRun(run(recipe, Grid, cycle, 1, ignore))

ForeverNext == ForeverRunCall \/ RunResume

SpecForever == ForeverInit /\ [][ForeverNext]_vars

\* the commands after the LOOP at l (from 1) up to its ENDL, or to the end
\* of the recipe when no ENDL follows
LoopBody(commands, l) ==
    {b \in (l + 1)..Len(commands) :
        \A k \in (l + 1)..b : commands[k].comm # "ENDL"}

\* the recipe has a LOOP with a negative argument and no PAUSE in its body
NegativeLoopNoPause(commands) ==
    \E l \in 1..Len(commands) :
        /\ commands[l].comm = "LOOP"
        /\ commands[l].args[1] < 0
        /\ \A b \in LoopBody(commands, l) : commands[b].comm # "PAUSE"

AllLoopsCounted(commands) ==
    \A l \in 1..Len(commands) : commands[l].comm = "LOOP" => commands[l].args[1] >= 0

\* run(n, ignore) with n < 0 is still in its loop after k cycles: run(k,
\* ignore) makes the same k cycles and the loop condition still holds
StillRunning(k, ignore) ==
    /\ run(recipe, Grid, cycle, k, ignore).raised = ""
    /\ run(recipe, Grid, cycle, k, ignore).steps = k
    /\ is_running(run(recipe, Grid, cycle, k, ignore).recipe)

\* the run has left its loop
Ended(out) == out.raised # "" \/ ~is_running(out.recipe)

\* the recipe r is inside a loop of negative count that an ENDL closes, with
\* nothing in the body that pauses it (unless pauses are ignored) or raises
InEndlessLoop(r, ignore) ==
    /\ ~r.paused
    /\ r.in_loop
    /\ r.loop_iters_remaining < 0
    /\ \E e \in (r.loop_idx + 2)..r.length :
           /\ r.commands[e].comm = "ENDL"
           /\ r.loop_idx + 1 <= r.idx
           /\ r.idx <= e - 1
           /\ \A b \in (r.loop_idx + 2)..(e - 1) :
                  \/ r.commands[b].comm \in {"ADDN", "ADDR", "RMVN", "WAIT"}
                  \/ r.commands[b].comm = "PAUSE" /\ ignore

MaxSquareCubes == 4
MaxSquareSteps == 12

\* a square in the plane z = 0: between two opposite corners there are two
\* routes of two hops
SquarePositions == BMFPositions \cup {<<0, 1, 0>>}

SquareGrid ==
    [NetworkGrid(BellmanFord[1], BellmanFord[2], DefaultMaxQLen)
         EXCEPT !.node_map = [p \in SquarePositions |-> 0]]

SquareInit ==
    /\ InitGrid(SquareGrid)
    /\ cycle = 0
    /\ got = <<>>
    /\ NoRecipe

\* the driver builds the square, one cube per position
SquareAddNode ==
    /\ Alive
    /\ Len(cubes) < MaxSquareCubes
    /\ \E pos \in SquarePositions :
           /\ node_map[pos] = 0
           /\ Install(bmf_add_node(Grid, pos, None))
    /\ UNCHANGED <<cycle, got, recipe, executed, raised>>

\* the driver steps the square until nothing is under way, and the grid
\* after a removal for as long as there is a step to count
SquareStep ==
    /\ ~Quiet(Grid) \/ Cardinality(PresentAt(Grid)) < Len(cubes)
    /\ BMFStepUpTo(MaxSquareSteps)

\* the driver removes a cube of the whole square once its tables have
\* converged
SquareRemoveNode ==
    /\ Alive
    /\ Cardinality(PresentAt(Grid)) = MaxSquareCubes
    /\ Quiet(Grid)
    /\ \E pos \in SquarePositions : Install(remove_node(Grid, pos))
    /\ UNCHANGED <<cycle, got, recipe, executed, raised>>

\* the driver sends one Data packet between two cubes that are left
SquareSend ==
    /\ Alive
    /\ executed = <<>>
    /\ Cardinality(PresentAt(Grid)) < Len(cubes)
    /\ \E src \in PresentAt(Grid), dest \in PresentAt(Grid) :
           /\ src # dest
           /\ InstallSent(bmf_send_packet_by_coords(Grid, 9, src, dest))
    /\ UNCHANGED <<cycle, got, recipe>>

SquareNext == SquareAddNode \/ SquareStep \/ SquareRemoveNode \/ SquareSend

SpecSquare == SquareInit /\ [][SquareNext]_vars

\* a cube has just been removed from the converged square and no Data
\* packet has been sent since
JustRemoved ==
    /\ Alive
    /\ Len(cubes) = MaxSquareCubes
    /\ Cardinality(PresentAt(Grid)) = MaxSquareCubes - 1
    /\ executed = <<>>
    /\ Quiet(Grid)

\* the Data packet from the cube at src for the cube at dest, and the
\* steps that follow
DeliveryBetween(g, src, dest) ==
    BMFRun([grid |-> bmf_send_packet_by_coords(g, 9, src, dest).grid,
            raised |-> "", log |-> <<>>],
           MaxDeliveryCycles)

\* C39: after remove_node has removed a cube from the converged square, a
\* Data packet from a present cube for a present cube that present cubes
\* still connect to it is taken from its queue by the destination.
C39_DeliveredAfterRemoval ==
    JustRemoved =>
        \A src \in PresentAt(Grid), dest \in PresentAt(Grid) :
            src # dest /\ Hops(Grid, src, dest) >= 0 =>
                DataTakenBy(DeliveryBetween(Grid, src, dest).log,
                            CubeAt(Grid, dest)) # {}

\* ------------------------------------------------ the per-cycle aggregates
\* the sum of current_q_len over the cubes of node_list
RECURSIVE SumQueued(_, _)
SumQueued(g, i) ==
    IF i > Len(g.node_list) THEN 0
    ELSE current_q_len(g.cubes[g.node_list[i]]) + SumQueued(g, i + 1)

\* the aggregates of the cycle are the sums of the cubes' values
AggregatesAreSums ==
    /\ stats.total_pkts_sent_this_cycle = SumStat(Grid, "num_pkts_sent_this_cycle", 1)
    /\ stats.total_pkts_received_this_cycle
           = SumStat(Grid, "num_pkts_received_this_cycle", 1)
    /\ stats.total_pkts_dropped_this_cycle
           = SumStat(Grid, "num_pkts_dropped_this_cycle", 1)
    /\ stats.total_pkts_queued = SumQueued(Grid, 1)

====
